---- MODULE Spec2Model ----
(***************************************************************************)
(* Verification model of the sell execution path, the blockhash cache, the *)
(* transaction assembly of the landing engine and the wire decoder of the  *)
(* sniper bot.                                                             *)
(*                                                                         *)
(* Option values are modelled as sequences: None is <<>>, Some(x) is <<x>>.*)
(* Time is counted in ticks of SecondsPerTick seconds; an Instant is kept  *)
(* as the number of ticks elapsed since it was taken (Instant::elapsed).   *)
(***************************************************************************)
EXTENDS Integers, Sequences, FiniteSets, TLC

None == <<>>
Some(x) == <<x>>
IsSome(o) == o # <<>>
Unwrap(o) == o[1]

(* ------------------------------ bounds -------------------------------- *)
\* granularity of the model clock, in seconds
SecondsPerTick == 5
\* number of distinct hashes the RPC endpoint hands out before it only fails
MaxHash == 2
\* how many times the decision layer inserts the sell marker of a mint
MaxMarkerInserts == 1

(* ------------------------- program constants -------------------------- *)
BLOCKHASH_STALENESS_THRESHOLD == 10
MAX_RETRIES == 3

\* first elapsed tick count that is stale; elapsed time saturates there
StaleTicks == (BLOCKHASH_STALENESS_THRESHOLD \div SecondsPerTick) + 1

(* ------------------------------ processes ----------------------------- *)
SellProcs == {"s1", "s2"}
Readers == {"r1"}
Refresher == "bg"
NoProc == "none"
Callers == SellProcs \cup Readers

VARIABLES
    LATEST_BLOCKHASH,        \* Option<Hash>
    BLOCKHASH_LAST_UPDATED,  \* Option<Instant>, kept as elapsed ticks
    latestLock,              \* RwLock of LATEST_BLOCKHASH: [w |-> holder, r |-> readers]
    tsLock,                  \* RwLock of BLOCKHASH_LAST_UPDATED
    nextHash,                \* the hash the RPC endpoint returns next
    stampedHash,             \* the hash BLOCKHASH_LAST_UPDATED was last taken for
    bgPc, bgHash,            \* the background refresh task of start()
    pc,                      \* position of every caller task
    glb,                     \* per caller: state of its get_latest_blockhash call
    rd,                      \* per reader: state of its get_fresh_blockhash call
    SELL_REASONS,            \* pending-sell markers (set of mints)
    PROGRESS_ON_SELLING,     \* in-progress markers (set of mints)
    TOKEN_HOLDINGS,          \* mint -> Option<current_amount>
    markerInserts,           \* number of marker insertions so far
    trade_info, sell_config, \* arguments of the sell calls
    sell,                    \* per sell task: locals of the call
    submitted,               \* transactions accepted by a channel, in order
    asm,                     \* one call of a transaction assembly function
    dec,                     \* one call of parse_transaction_data
    calc,                    \* one call of a bonding-curve function of Pump
    OFFCHAIN_BLOCKHASH,      \* Option<Hash>: the durable slot
    nonceSeq,                \* which value the durable nonce account holds on chain
    env,                     \* process arguments and environment: [command_mode, NONCE_ACCOUNT]
    CLEANUP_IN_PROGRESS,     \* the mints whose cleanup lock is taken
    CLEANUP_COUNT,           \* AtomicUsize: cleanups running
    maint                    \* the periodic cleanup task and the build holding a cleanup lock

bhVars == <<LATEST_BLOCKHASH, BLOCKHASH_LAST_UPDATED, latestLock, tsLock, nextHash, stampedHash, bgPc, bgHash>>
storeVars == <<SELL_REASONS, PROGRESS_ON_SELLING, TOKEN_HOLDINGS, markerInserts>>
callVars == <<pc, glb, rd, sell, submitted>>
durableVars == <<OFFCHAIN_BLOCKHASH, nonceSeq, env>>
maintVars == <<CLEANUP_IN_PROGRESS, CLEANUP_COUNT, maint>>
argVars == <<trade_info, sell_config, asm, dec, calc, durableVars, maintVars>>
vars == <<bhVars, storeVars, callVars, argVars>>

(* ------------------------------ RwLock -------------------------------- *)
FreeLock == [w |-> NoProc, r |-> {}]
CanRead(l) == l.w = NoProc
CanWrite(l, p) == l.w = NoProc /\ l.r = {}
AddReader(l, p) == [l EXCEPT !.r = @ \cup {p}]
DropReader(l, p) == [l EXCEPT !.r = @ \ {p}]
SetWriter(l, p) == [l EXCEPT !.w = p]

(* --------------------------- blockhash cache -------------------------- *)
\* the staleness test left out
IsStaleNeverTrue(instant) == FALSE

IsStale(instant) == IsSome(instant) /\ Unwrap(instant) * SecondsPerTick > BLOCKHASH_STALENESS_THRESHOLD

\* rpc_client.get_latest_blockhash(): a new hash, or an error
RpcHashOutcomes == IF nextHash <= MaxHash THEN {Some(nextHash), None} ELSE {None}

\* start(): one iteration fetches, and on success stores value then timestamp
BgFetch ==
    /\ bgPc = "fetch"
    /\ \E o \in RpcHashOutcomes :
        IF IsSome(o)
        THEN /\ bgHash' = Unwrap(o)
             /\ nextHash' = nextHash + 1
             /\ bgPc' = "w_latest"
        ELSE /\ bgPc' = "fetch"
             /\ UNCHANGED <<bgHash, nextHash>>
    /\ UNCHANGED <<LATEST_BLOCKHASH, BLOCKHASH_LAST_UPDATED, latestLock, tsLock, stampedHash>>
    /\ UNCHANGED <<storeVars, callVars, argVars>>

BgWriteLatest ==
    /\ bgPc = "w_latest"
    /\ CanWrite(latestLock, Refresher)
    /\ latestLock' = SetWriter(latestLock, Refresher)
    /\ LATEST_BLOCKHASH' = Some(bgHash)
    /\ bgPc' = "w_ts"
    /\ UNCHANGED <<BLOCKHASH_LAST_UPDATED, tsLock, nextHash, stampedHash, bgHash>>
    /\ UNCHANGED <<storeVars, callVars, argVars>>

BgWriteTimestamp ==
    /\ bgPc = "w_ts"
    /\ CanWrite(tsLock, Refresher)
    /\ BLOCKHASH_LAST_UPDATED' = Some(0)
    /\ stampedHash' = Some(bgHash)
    /\ latestLock' = FreeLock
    /\ bgPc' = "fetch"
    /\ UNCHANGED <<LATEST_BLOCKHASH, tsLock, nextHash, bgHash>>
    /\ UNCHANGED <<storeVars, callVars, argVars>>

\* the clock advances: every stored Instant gets one tick older
Tick ==
    /\ IsSome(BLOCKHASH_LAST_UPDATED)
    /\ Unwrap(BLOCKHASH_LAST_UPDATED) < StaleTicks
    /\ BLOCKHASH_LAST_UPDATED' = Some(Unwrap(BLOCKHASH_LAST_UPDATED) + 1)
    /\ UNCHANGED <<LATEST_BLOCKHASH, latestLock, tsLock, nextHash, stampedHash, bgPc, bgHash>>
    /\ UNCHANGED <<storeVars, callVars, argVars>>

(* --------------------- get_latest_blockhash (any caller) --------------- *)
GlbFresh == [seen |-> FALSE, age |-> 0, stamp |-> None]

\* get_fresh_blockhash continues after get_latest_blockhash returned res;
\* get_blockhash_for_transaction_static, which looked for itself, calls
\* get_fresh_blockhash if it has an RPC client and fails otherwise
ReaderAfterGlb(r, res) ==
    IF IsSome(res)
    THEN /\ pc' = [pc EXCEPT ![r] = "done"]
         /\ rd' = [rd EXCEPT ![r] = [@ EXCEPT !.result = res, !.cached = TRUE]]
    ELSE IF rd[r].peek
    THEN IF rd[r].rpc_client
         THEN /\ pc' = [pc EXCEPT ![r] = "glb_ts"]
              /\ rd' = [rd EXCEPT ![r] = [@ EXCEPT !.peek = FALSE]]
         ELSE /\ pc' = [pc EXCEPT ![r] = "done"]
              /\ rd' = [rd EXCEPT ![r] = [@ EXCEPT !.peek = FALSE, !.failed = TRUE]]
    ELSE /\ pc' = [pc EXCEPT ![r] = "gfb_rpc"]
         /\ rd' = rd

\* a failed normal sell is tried again instead of escalating
RetryNormalSell == "pf_gate"

\* where execute_sell_with_retry_and_fallback goes when the normal sell failed
AfterNormalSellFailed == "jup_gate"

\* execute_pumpfun_sell returned Err(e): execute_normal_sell_with_retry wraps
\* it and the orchestrator escalates to the fallback
PrimaryFail(p, s, e) ==
    /\ pc' = [pc EXCEPT ![p] = AfterNormalSellFailed]
    /\ sell' = [sell EXCEPT ![p] = [s EXCEPT !.pumpResult = e,
                                             !.normalErr = <<"PumpFun sell failed: ">> \o e]]

\* execute_pumpfun_sell continues after get_latest_blockhash returned res:
\* no blockhash is an error of the primary channel, there is no fetch here
SellAfterGlb(p, res) ==
    IF IsSome(res)
    THEN /\ pc' = [pc EXCEPT ![p] = "pf_send"]
         /\ sell' = [sell EXCEPT ![p] = [@ EXCEPT !.blockhash = res]]
    ELSE PrimaryFail(p, [sell[p] EXCEPT !.noHashSeen = TRUE], <<"Failed to get real-time blockhash">>)

AfterGlb(p, res) ==
    IF p \in Readers
    THEN ReaderAfterGlb(p, res) /\ UNCHANGED sell
    ELSE SellAfterGlb(p, res) /\ UNCHANGED rd

\* takes the read lock of the timestamp and checks the staleness; the guard
\* is held until the function returns
GlbCheck(p) ==
    /\ pc[p] = "glb_ts"
    /\ CanRead(tsLock)
    /\ glb' = [glb EXCEPT ![p] = [seen |-> IsSome(BLOCKHASH_LAST_UPDATED),
                                  age |-> IF IsSome(BLOCKHASH_LAST_UPDATED)
                                          THEN Unwrap(BLOCKHASH_LAST_UPDATED) ELSE 0,
                                  stamp |-> stampedHash]]
    /\ IF IsStale(BLOCKHASH_LAST_UPDATED)
       THEN /\ tsLock' = tsLock
            /\ AfterGlb(p, None)
       ELSE /\ tsLock' = AddReader(tsLock, p)
            /\ pc' = [pc EXCEPT ![p] = "glb_latest"]
            /\ UNCHANGED <<rd, sell>>
    /\ UNCHANGED <<LATEST_BLOCKHASH, BLOCKHASH_LAST_UPDATED, latestLock, nextHash, stampedHash, bgPc, bgHash>>
    /\ UNCHANGED <<storeVars, submitted, argVars>>

\* takes the read lock of the value, returns it and drops both guards
GlbRead(p) ==
    /\ pc[p] = "glb_latest"
    /\ CanRead(latestLock)
    /\ tsLock' = DropReader(tsLock, p)
    /\ AfterGlb(p, LATEST_BLOCKHASH)
    /\ UNCHANGED <<LATEST_BLOCKHASH, BLOCKHASH_LAST_UPDATED, latestLock, nextHash, stampedHash, bgPc, bgHash>>
    /\ UNCHANGED <<glb, storeVars, submitted, argVars>>

(* ------------------------- get_fresh_blockhash ------------------------ *)
\* entry names the function the consumer called; peek is set while
\* get_blockhash_for_transaction_static does its own get_latest_blockhash
RdFresh == [result |-> None, cached |-> FALSE, fetched |-> FALSE, failed |-> FALSE, newHash |-> 0,
            entry |-> "get_fresh_blockhash", peek |-> FALSE, rpc_client |-> TRUE,
            durable |-> FALSE, slotAtCall |-> None, nonceFetched |-> FALSE]

ReaderCall(r) ==
    /\ pc[r] = "idle"
    /\ pc' = [pc EXCEPT ![r] = "glb_ts"]
    /\ rd' = [rd EXCEPT ![r] = RdFresh]
    /\ glb' = [glb EXCEPT ![r] = GlbFresh]
    /\ UNCHANGED <<bhVars, storeVars, sell, submitted, argVars>>

\* the fallback: self.rpc_client.get_latest_blockhash()
ReaderFetch(r) ==
    /\ pc[r] = "gfb_rpc"
    /\ \E o \in RpcHashOutcomes :
        IF IsSome(o)
        THEN /\ rd' = [rd EXCEPT ![r] = [@ EXCEPT !.fetched = TRUE, !.newHash = Unwrap(o)]]
             /\ nextHash' = nextHash + 1
             /\ pc' = [pc EXCEPT ![r] = "ub_latest"]
        ELSE /\ rd' = [rd EXCEPT ![r] = [@ EXCEPT !.fetched = TRUE, !.failed = TRUE]]
             /\ nextHash' = nextHash
             /\ pc' = [pc EXCEPT ![r] = "done"]
    /\ UNCHANGED <<LATEST_BLOCKHASH, BLOCKHASH_LAST_UPDATED, latestLock, tsLock, stampedHash, bgPc, bgHash>>
    /\ UNCHANGED <<glb, sell, submitted, storeVars, argVars>>

\* update_blockhash: value first, then timestamp, both guards held to the end
ReaderWriteLatest(r) ==
    /\ pc[r] = "ub_latest"
    /\ CanWrite(latestLock, r)
    /\ latestLock' = SetWriter(latestLock, r)
    /\ LATEST_BLOCKHASH' = Some(rd[r].newHash)
    /\ pc' = [pc EXCEPT ![r] = "ub_ts"]
    /\ UNCHANGED <<BLOCKHASH_LAST_UPDATED, tsLock, nextHash, stampedHash, bgPc, bgHash>>
    /\ UNCHANGED <<glb, rd, sell, submitted, storeVars, argVars>>

ReaderWriteTimestamp(r) ==
    /\ pc[r] = "ub_ts"
    /\ CanWrite(tsLock, r)
    /\ BLOCKHASH_LAST_UPDATED' = Some(0)
    /\ stampedHash' = Some(rd[r].newHash)
    /\ latestLock' = FreeLock
    /\ rd' = [rd EXCEPT ![r] = [@ EXCEPT !.result = Some(rd[r].newHash)]]
    /\ pc' = [pc EXCEPT ![r] = "done"]
    /\ UNCHANGED <<LATEST_BLOCKHASH, tsLock, nextHash, bgPc, bgHash>>
    /\ UNCHANGED <<glb, sell, submitted, storeVars, argVars>>

\* the consumer is done with the hash and may ask again later
ReaderReturn(r) ==
    /\ pc[r] = "done"
    /\ pc' = [pc EXCEPT ![r] = "idle"]
    /\ UNCHANGED <<bhVars, storeVars, glb, rd, sell, submitted, argVars>>

(* ----------------------------- durable slot --------------------------- *)
\* how many values the durable nonce account takes on chain
MaxNonce == 2
\* the hash stored in the durable account, apart from the recent hashes 1, 2, ...
NonceHash(k) == 100 + k

Envs == [command_mode : BOOLEAN, NONCE_ACCOUNT : {"unset", "invalid", "valid"}]

\* std::env::var("NONCE_ACCOUNT").is_ok(): the variable is set, valid or not
is_offchain_blockhash_available == env.NONCE_ACCOUNT # "unset"
\* one of --sell, --close, --nonce, --wrap, --unwrap is among the arguments
is_command_mode == env.command_mode
should_use_offchain_blockhash == ~is_command_mode /\ is_offchain_blockhash_available

\* a transaction consumed the durable nonce: the account holds a new value
NonceAdvance ==
    /\ nonceSeq < MaxNonce
    /\ nonceSeq' = nonceSeq + 1
    /\ UNCHANGED <<bhVars, storeVars, callVars, trade_info, sell_config, asm, dec, calc, maintVars,
                   OFFCHAIN_BLOCKHASH, env>>

\* update_offchain_blockhash up to the cache write: the errors of reading the
\* variable, parsing the key, get_account and data_from_account, or the value
NonceFetchOutcomes ==
    IF env.NONCE_ACCOUNT = "unset"
    THEN {<<"err", "NONCE_ACCOUNT environment variable not set">>}
    ELSE IF env.NONCE_ACCOUNT = "invalid"
    THEN {<<"err", "Invalid NONCE_ACCOUNT pubkey">>}
    ELSE {Some(NonceHash(nonceSeq)), <<"err", "Failed to get nonce account">>,
          <<"err", "Failed to parse nonce data">>}

\* every read of the durable slot goes on to the durable account
OffchainAlwaysRefetch(cached) == "uoff_fetch"

\* get_offchain_blockhash after its read of the slot: return the cached
\* value, or go on to update_offchain_blockhash
OffchainAfterRead(cached) == IF IsSome(cached) THEN "done" ELSE "uoff_fetch"

\* get_blockhash_for_transaction_static(rpc_client)
StaticCall(r) ==
    /\ pc[r] = "idle"
    /\ \E client \in BOOLEAN :
        rd' = [rd EXCEPT ![r] = [RdFresh EXCEPT !.entry = "get_blockhash_for_transaction_static",
                                                !.rpc_client = client,
                                                !.peek = ~should_use_offchain_blockhash,
                                                !.durable = should_use_offchain_blockhash,
                                                !.slotAtCall = OFFCHAIN_BLOCKHASH]]
    /\ pc' = [pc EXCEPT ![r] = IF should_use_offchain_blockhash THEN "st_off_read" ELSE "glb_ts"]
    /\ glb' = [glb EXCEPT ![r] = GlbFresh]
    /\ UNCHANGED <<bhVars, storeVars, sell, submitted, argVars>>

\* its own look at the durable slot, before any processor is built
StaticOffRead(r) ==
    /\ pc[r] = "st_off_read"
    /\ IF IsSome(OFFCHAIN_BLOCKHASH)
       THEN /\ pc' = [pc EXCEPT ![r] = "done"]
            /\ rd' = [rd EXCEPT ![r] = [@ EXCEPT !.result = OFFCHAIN_BLOCKHASH, !.cached = TRUE]]
       ELSE IF rd[r].rpc_client
       THEN /\ pc' = [pc EXCEPT ![r] = "goff_read"]
            /\ rd' = rd
       ELSE /\ pc' = [pc EXCEPT ![r] = "done"]
            /\ rd' = [rd EXCEPT ![r] = [@ EXCEPT !.failed = TRUE]]
    /\ UNCHANGED <<bhVars, storeVars, glb, sell, submitted, argVars>>

\* get_blockhash_for_transaction(use_offchain)
TransactionCall(r) ==
    /\ pc[r] = "idle"
    /\ \E use_offchain \in BOOLEAN :
        LET durable == use_offchain /\ is_offchain_blockhash_available IN
        /\ rd' = [rd EXCEPT ![r] = [RdFresh EXCEPT !.entry = "get_blockhash_for_transaction",
                                                   !.durable = durable,
                                                   !.slotAtCall = OFFCHAIN_BLOCKHASH]]
        /\ pc' = [pc EXCEPT ![r] = IF durable THEN "goff_read" ELSE "glb_ts"]
    /\ glb' = [glb EXCEPT ![r] = GlbFresh]
    /\ UNCHANGED <<bhVars, storeVars, sell, submitted, argVars>>

GetOffchainCall(r) ==
    /\ pc[r] = "idle"
    /\ rd' = [rd EXCEPT ![r] = [RdFresh EXCEPT !.entry = "get_offchain_blockhash",
                                               !.durable = TRUE,
                                               !.slotAtCall = OFFCHAIN_BLOCKHASH]]
    /\ pc' = [pc EXCEPT ![r] = "goff_read"]
    /\ UNCHANGED <<bhVars, storeVars, glb, sell, submitted, argVars>>

\* get_offchain_blockhash reads the slot
OffchainRead(r) ==
    /\ pc[r] = "goff_read"
    /\ pc' = [pc EXCEPT ![r] = OffchainAfterRead(OFFCHAIN_BLOCKHASH)]
    /\ rd' = IF OffchainAfterRead(OFFCHAIN_BLOCKHASH) = "done"
             THEN [rd EXCEPT ![r] = [@ EXCEPT !.result = OFFCHAIN_BLOCKHASH, !.cached = TRUE]]
             ELSE rd
    /\ UNCHANGED <<bhVars, storeVars, glb, sell, submitted, argVars>>

UpdateOffchainCall(r) ==
    /\ pc[r] = "idle"
    /\ rd' = [rd EXCEPT ![r] = [RdFresh EXCEPT !.entry = "update_offchain_blockhash",
                                               !.durable = TRUE,
                                               !.slotAtCall = OFFCHAIN_BLOCKHASH]]
    /\ pc' = [pc EXCEPT ![r] = "uoff_fetch"]
    /\ UNCHANGED <<bhVars, storeVars, glb, sell, submitted, argVars>>

\* update_offchain_blockhash reads the durable account; the RPC node is
\* asked only when the variable holds a valid key
OffchainFetch(r) ==
    /\ pc[r] = "uoff_fetch"
    /\ \E o \in NonceFetchOutcomes :
        IF Len(o) = 1
        THEN /\ rd' = [rd EXCEPT ![r] = [@ EXCEPT !.nonceFetched = TRUE, !.newHash = Unwrap(o)]]
             /\ pc' = [pc EXCEPT ![r] = "uoff_write"]
        ELSE /\ rd' = [rd EXCEPT ![r] = [@ EXCEPT !.nonceFetched = (env.NONCE_ACCOUNT = "valid"),
                                                  !.failed = TRUE]]
             /\ pc' = [pc EXCEPT ![r] = "done"]
    /\ UNCHANGED <<bhVars, storeVars, glb, sell, submitted, argVars>>

\* and caches the value it found
OffchainWrite(r) ==
    /\ pc[r] = "uoff_write"
    /\ OFFCHAIN_BLOCKHASH' = Some(rd[r].newHash)
    /\ rd' = [rd EXCEPT ![r] = [@ EXCEPT !.result = Some(rd[r].newHash)]]
    /\ pc' = [pc EXCEPT ![r] = "done"]
    /\ UNCHANGED <<bhVars, storeVars, glb, sell, submitted, trade_info, sell_config, asm, dec, calc, maintVars,
                   nonceSeq, env>>

(* ------------------------------ sell path ----------------------------- *)
Mints == {"m1"}
DexTypes == {"PumpFun", "PumpSwap"}
\* SwapConfig.amount_in, in hundredths (100 is 1.0)
AmountIns == {0, 100}
\* holdings in whole UI tokens, and raw balances the RPC node may report
HoldingAmounts == {0, 3}
DECIMALS_FACTOR == 1000000
RpcBalances == {0, 3 * DECIMALS_FACTOR}
Entries == {"execute_sell_with_retry_and_fallback", "build_swap_from_parsed_data"}

Max(a, b) == IF a >= b THEN a ELSE b
Min(a, b) == IF a <= b THEN a ELSE b

\* (current_amount * 10f64.powi(6)) as u64, for a whole number of tokens
RawFromUi(n) == n * DECIMALS_FACTOR

\* the amount a sell build puts into the swap instruction
SellTokenAmount(in_type, amount_in, raw_amount) ==
    IF in_type = "Qty"
    THEN (amount_in * DECIMALS_FACTOR) \div 100
    ELSE Max((Min(amount_in, 100) * raw_amount) \div 100, 1)

\* execute_jupiter_sell: amount_in is read as a fraction whatever in_type is
JupiterAmountToSell(amount_in, token_amount) ==
    IF amount_in >= 100 THEN token_amount ELSE (token_amount * amount_in) \div 100

SwapInstruction(amount) == [kind |-> "swap", amount |-> amount, threshold |-> 1]

\* the tail of build_swap_from_parsed_data: Ok(instructions) or Err
BuildFinish(token_amount) ==
    IF token_amount > 0
    THEN [ok |-> TRUE, instructions |-> <<SwapInstruction(token_amount)>>, err |-> <<>>]
    ELSE [ok |-> FALSE, instructions |-> <<>>, err |-> <<"Instructions is empty, no txn required.">>]

BuildErr(msg) == [ok |-> FALSE, instructions |-> <<>>, err |-> <<msg>>]

NoResult == [set |-> FALSE, success |-> FALSE, signature |-> None, error |-> None,
             used_jupiter_fallback |-> FALSE, attempt_count |-> 0]

NormalSuccessResult(signature) ==
    [set |-> TRUE, success |-> TRUE, signature |-> Some(signature), error |-> None,
     used_jupiter_fallback |-> FALSE, attempt_count |-> 1]

\* the fallback flag forgotten
FallbackSuccessUnflagged(signature) ==
    [set |-> TRUE, success |-> TRUE, signature |-> Some(signature), error |-> None,
     used_jupiter_fallback |-> FALSE, attempt_count |-> MAX_RETRIES + 1]

FallbackSuccessResult(signature) ==
    [set |-> TRUE, success |-> TRUE, signature |-> Some(signature), error |-> None,
     used_jupiter_fallback |-> TRUE, attempt_count |-> MAX_RETRIES + 1]

\* the underlying error dropped from the report
AllFailedNoMessage(e) ==
    [set |-> TRUE, success |-> FALSE, signature |-> None,
     error |-> Some(<<"All sell attempts failed.">>),
     used_jupiter_fallback |-> TRUE, attempt_count |-> MAX_RETRIES + 1]

AllFailedResult(e) ==
    [set |-> TRUE, success |-> FALSE, signature |-> None,
     error |-> Some(<<"All sell attempts failed. Last error: ">> \o e),
     used_jupiter_fallback |-> TRUE, attempt_count |-> MAX_RETRIES + 1]

SellFresh(entry, marker) ==
    [entry |-> entry, primaryAttempts |-> 0, secondaryAttempts |-> 0,
     gateSawMarker |-> FALSE, buildSawMarker |-> FALSE,
     markerAtCall |-> marker, overlapped |-> FALSE,
     pumpResult |-> <<>>, normalErr |-> <<>>, jupErr |-> <<>>,
     build |-> [ok |-> FALSE, instructions |-> <<>>, err |-> <<>>], built |-> FALSE,
     noHashSeen |-> FALSE, blockhash |-> None, token_amount |-> 0, result |-> NoResult]

\* the marker cleared on return
SellReasonsCleared(reasons, mint) == reasons \ {mint}

\* SELL_REASONS as the orchestrator leaves it when it returns for mint
SellReasonsAtReturn(reasons, mint) == reasons

\* the orchestrator returns result
SellReturn(p, s, result) ==
    /\ pc' = [pc EXCEPT ![p] = "done"]
    /\ sell' = [sell EXCEPT ![p] = [s EXCEPT !.result = result]]
    /\ SELL_REASONS' = SellReasonsAtReturn(SELL_REASONS, trade_info.mint)

\* entry into the orchestrator or, directly, into the instruction builder
SellCall(p) ==
    /\ pc[p] = "idle"
    /\ \E entry \in Entries :
        IF entry = "build_swap_from_parsed_data"
        THEN /\ pc' = [pc EXCEPT ![p] = "build_start"]
             /\ sell' = [sell EXCEPT ![p] = SellFresh(entry, trade_info.mint \in SELL_REASONS)]
        ELSE IF trade_info.dex_type # "PumpFun"
        THEN /\ pc' = [pc EXCEPT ![p] = AfterNormalSellFailed]
             /\ sell' = [sell EXCEPT ![p] = [SellFresh(entry, trade_info.mint \in SELL_REASONS) EXCEPT
                            !.normalErr = <<"Not a PumpFun token - skipping normal sell">>]]
        ELSE /\ pc' = [pc EXCEPT ![p] = "pf_gate"]
             /\ sell' = [sell EXCEPT ![p] = SellFresh(entry, trade_info.mint \in SELL_REASONS)]
    /\ UNCHANGED <<bhVars, storeVars, glb, rd, submitted, argVars>>

\* q is inside execute_pumpfun_sell, past the marker gate
InPumpfunSell(q) ==
    /\ sell[q].entry = "execute_sell_with_retry_and_fallback"
    /\ pc[q] \in {"pf_progress", "build_start", "build_rpc", "glb_ts", "glb_latest", "pf_send"}

\* execute_pumpfun_sell: the marker gate and the venue check
PfGate(p) ==
    /\ pc[p] = "pf_gate"
    /\ LET s == [sell[p] EXCEPT !.primaryAttempts = @ + 1,
                                !.gateSawMarker = trade_info.mint \in SELL_REASONS,
                                !.overlapped = \E q \in SellProcs \ {p} : InPumpfunSell(q)] IN
        IF trade_info.mint \notin SELL_REASONS
        THEN PrimaryFail(p, s, <<"Sell reason not set - skipping transaction building">>)
        ELSE IF trade_info.dex_type # "PumpFun"
        THEN PrimaryFail(p, s, <<"Not a PumpFun token">>)
        ELSE /\ pc' = [pc EXCEPT ![p] = "pf_progress"]
             /\ sell' = [sell EXCEPT ![p] = s]
    /\ UNCHANGED <<bhVars, storeVars, glb, rd, submitted, argVars>>

PfProgress(p) ==
    /\ pc[p] = "pf_progress"
    /\ PROGRESS_ON_SELLING' = PROGRESS_ON_SELLING \cup {trade_info.mint}
    /\ pc' = [pc EXCEPT ![p] = "build_start"]
    /\ UNCHANGED <<SELL_REASONS, TOKEN_HOLDINGS, markerInserts>>
    /\ UNCHANGED <<bhVars, glb, rd, sell, submitted, argVars>>

\* build_swap_from_parsed_data returned res to its caller
BuildReturn(p, s0, res) ==
    LET s == [s0 EXCEPT !.build = res, !.built = TRUE] IN
    IF s.entry = "build_swap_from_parsed_data"
    THEN /\ pc' = [pc EXCEPT ![p] = "done"]
         /\ sell' = [sell EXCEPT ![p] = s]
         /\ glb' = glb
    ELSE IF res.ok
    THEN /\ pc' = [pc EXCEPT ![p] = "glb_ts"]
         /\ sell' = [sell EXCEPT ![p] = s]
         /\ glb' = [glb EXCEPT ![p] = GlbFresh]
    ELSE /\ PrimaryFail(p, s, <<"PumpFun build_swap_from_parsed_data failed: ">> \o res.err)
         /\ glb' = glb

\* build_swap_from_parsed_data, Sell: up to the first read of TOKEN_HOLDINGS
BuildStart(p) ==
    /\ pc[p] = "build_start"
    /\ LET s == [sell[p] EXCEPT !.buildSawMarker = trade_info.mint \in SELL_REASONS]
           held == TOKEN_HOLDINGS[trade_info.mint] IN
        IF ~IsSome(trade_info.coin_creator)
        THEN BuildReturn(p, s, BuildErr("Coin creator not found in trade info"))
        ELSE IF IsSome(held)
        THEN BuildReturn(p, s, BuildFinish(
                 SellTokenAmount(sell_config.in_type, sell_config.amount_in, RawFromUi(Unwrap(held)))))
        ELSE /\ pc' = [pc EXCEPT ![p] = "build_rpc"]
             /\ sell' = [sell EXCEPT ![p] = s]
             /\ glb' = glb
    /\ UNCHANGED <<bhVars, storeVars, rd, submitted, argVars>>

\* the second read of TOKEN_HOLDINGS left out: a failed inquiry is an error
BuildRpcWithoutSecondRead(p) ==
    /\ pc[p] = "build_rpc"
    /\ \E o \in {Some(a) : a \in RpcBalances} \cup {None, <<"err", "rpc">>} :
        IF Len(o) = 1
        THEN BuildReturn(p, sell[p], BuildFinish(
                 SellTokenAmount(sell_config.in_type, sell_config.amount_in, Unwrap(o))))
        ELSE IF o = None
        THEN BuildReturn(p, sell[p], BuildErr("Token account does not exist and not in TOKEN_HOLDINGS"))
        ELSE BuildReturn(p, sell[p], BuildErr("Failed to get token account balance and not in TOKEN_HOLDINGS"))
    /\ UNCHANGED <<bhVars, storeVars, rd, submitted, argVars>>

\* the live balance inquiry answers; account-not-found and errors fall back
\* to a second read of TOKEN_HOLDINGS
BuildRpc(p) ==
    /\ pc[p] = "build_rpc"
    /\ \E o \in {Some(a) : a \in RpcBalances} \cup {None, <<"err", "rpc">>} :
        LET held == TOKEN_HOLDINGS[trade_info.mint] IN
        IF Len(o) = 1
        THEN BuildReturn(p, sell[p], BuildFinish(
                 SellTokenAmount(sell_config.in_type, sell_config.amount_in, Unwrap(o))))
        ELSE IF IsSome(held)
        THEN BuildReturn(p, sell[p], BuildFinish(
                 SellTokenAmount(sell_config.in_type, sell_config.amount_in, RawFromUi(Unwrap(held)))))
        ELSE IF o = None
        THEN BuildReturn(p, sell[p], BuildErr("Token account does not exist and not in TOKEN_HOLDINGS"))
        ELSE BuildReturn(p, sell[p], BuildErr("Failed to get token account balance and not in TOKEN_HOLDINGS"))
    /\ UNCHANGED <<bhVars, storeVars, rd, submitted, argVars>>

(* ------------------------- transaction assembly ----------------------- *)
Ix(kind) == [kind |-> kind, amount |-> 0, threshold |-> 0]
NonceIx == Ix("advance_nonce_account")
UnitLimitIx == Ix("set_compute_unit_limit")
UnitPriceIx == Ix("set_compute_unit_price")
TipIx == Ix("zeroslot_tip_transfer")

\* Vec::insert(index, x): panics when index > len
CanInsert(v, index) == index <= Len(v)
VecInsert(v, index, x) == SubSeq(v, 1, index) \o <<x>> \o SubSeq(v, index + 1, Len(v))

Assembled(v) == [panic |-> FALSE, ins |-> v]
Panicked == [panic |-> TRUE, ins |-> <<>>]

\* src/core/tx.rs new_signed_and_send_zeroslot: the compute budget inserts
\* are commented out and no nonce instruction is added
CoreZeroslotInstructions(instructions) ==
    Assembled(Append(instructions, TipIx))

\* src/tx.rs new_signed_and_send_zeroslot
RootZeroslotInstructions(instructions) ==
    IF ~CanInsert(instructions, 1)
    THEN Panicked
    ELSE LET a == VecInsert(instructions, 1, UnitLimitIx)
             b == VecInsert(a, 2, UnitPriceIx)
             c == Append(b, TipIx)
         IN Assembled(VecInsert(c, 0, NonceIx))

\* src/core/tx.rs build_signed_buying_transaction
BuildSignedBuyingInstructions(instructions) ==
    LET a == VecInsert(instructions, 0, NonceIx)
        b == VecInsert(a, 1, UnitLimitIx)
        c == VecInsert(b, 2, UnitPriceIx)
    IN Assembled(Append(c, TipIx))

(* --------------------- sell path: the two channels -------------------- *)
Accept(channel, p, ins) ==
    submitted' = Append(submitted, [channel |-> channel, by |-> p, ins |-> ins])

\* what the relay client hands back once the relay has taken the transaction:
\* an identifier that parses as a signature, or one that does not
RelayAccepted == {"accepted", "accepted_bad_signature"}

\* tx::new_signed_and_send_zeroslot and the signature handling after it
PfSend(p) ==
    /\ pc[p] = "pf_send"
    /\ \E o \in {"tip_failed", "send_failed"} \cup RelayAccepted :
        CASE o = "tip_failed" ->
                /\ PrimaryFail(p, sell[p], <<"PumpFun transaction send failed: ", "tip value unavailable">>)
                /\ UNCHANGED <<submitted, SELL_REASONS>>
          [] o = "send_failed" ->
                /\ PrimaryFail(p, sell[p], <<"PumpFun transaction send failed: ", "zeroslot send_transaction failed">>)
                /\ UNCHANGED <<submitted, SELL_REASONS>>
          [] o = "accepted_bad_signature" ->
                /\ Accept("zeroslot", p, CoreZeroslotInstructions(sell[p].build.instructions).ins)
                /\ PrimaryFail(p, sell[p], <<"Failed to parse signature: ">>)
                /\ UNCHANGED SELL_REASONS
          [] o = "accepted" ->
                /\ Accept("zeroslot", p, CoreZeroslotInstructions(sell[p].build.instructions).ins)
                /\ SellReturn(p, [sell[p] EXCEPT !.pumpResult = <<"ok">>],
                              NormalSuccessResult(Len(submitted) + 1))
    /\ UNCHANGED <<PROGRESS_ON_SELLING, TOKEN_HOLDINGS, markerInserts>>
    /\ UNCHANGED <<bhVars, glb, rd, argVars>>

\* execute_jupiter_fallback_sell returned Err(e)
FallbackFail(p, s, e) ==
    SellReturn(p, [s EXCEPT !.jupErr = e], AllFailedResult(e))

\* execute_jupiter_sell once the raw balance is known
JupWithBalance(p, s, token_amount) ==
    IF token_amount = 0
    THEN FallbackFail(p, s, <<"No tokens to sell">>)
    ELSE /\ pc' = [pc EXCEPT ![p] = "jup_quote"]
         /\ sell' = [sell EXCEPT ![p] = [s EXCEPT !.token_amount =
                        JupiterAmountToSell(sell_config.amount_in, token_amount)]]
         /\ UNCHANGED SELL_REASONS

\* the marker gate of the aggregator channel left out
JupGateWithoutMarkerCheck(p) ==
    /\ pc[p] = "jup_gate"
    /\ LET s == [sell[p] EXCEPT !.secondaryAttempts = @ + 1]
           held == TOKEN_HOLDINGS[trade_info.mint] IN
        IF IsSome(held)
        THEN JupWithBalance(p, s, RawFromUi(Unwrap(held)))
        ELSE /\ pc' = [pc EXCEPT ![p] = "jup_rpc"]
             /\ sell' = [sell EXCEPT ![p] = s]
             /\ UNCHANGED SELL_REASONS
    /\ UNCHANGED <<PROGRESS_ON_SELLING, TOKEN_HOLDINGS, markerInserts>>
    /\ UNCHANGED <<bhVars, glb, rd, submitted, argVars>>

\* execute_jupiter_sell: the marker gate and the first read of TOKEN_HOLDINGS
JupGate(p) ==
    /\ pc[p] = "jup_gate"
    /\ LET s == [sell[p] EXCEPT !.secondaryAttempts = @ + 1]
           held == TOKEN_HOLDINGS[trade_info.mint] IN
        IF trade_info.mint \notin SELL_REASONS
        THEN FallbackFail(p, s, <<"Sell reason not set - skipping transaction building">>)
        ELSE IF IsSome(held)
        THEN JupWithBalance(p, s, RawFromUi(Unwrap(held)))
        ELSE /\ pc' = [pc EXCEPT ![p] = "jup_rpc"]
             /\ sell' = [sell EXCEPT ![p] = s]
             /\ UNCHANGED SELL_REASONS
    /\ UNCHANGED <<PROGRESS_ON_SELLING, TOKEN_HOLDINGS, markerInserts>>
    /\ UNCHANGED <<bhVars, glb, rd, submitted, argVars>>

JupRpc(p) ==
    /\ pc[p] = "jup_rpc"
    /\ \E o \in {Some(a) : a \in RpcBalances} \cup {None, <<"err", "rpc">>} :
        IF Len(o) = 1
        THEN JupWithBalance(p, sell[p], Unwrap(o))
        ELSE IF o = None
        THEN FallbackFail(p, sell[p], <<"Token account not found">>)
        ELSE FallbackFail(p, sell[p], <<"Failed to get token account: ">>)
    /\ UNCHANGED <<PROGRESS_ON_SELLING, TOKEN_HOLDINGS, markerInserts>>
    /\ UNCHANGED <<bhVars, glb, rd, submitted, argVars>>

JupQuote(p) ==
    /\ pc[p] = "jup_quote"
    /\ \E o \in {"quote_failed", "too_small", "quoted"} :
        CASE o = "quote_failed" -> FallbackFail(p, sell[p], <<"Jupiter quote failed: ">>)
          [] o = "too_small" -> FallbackFail(p, sell[p], <<"Expected SOL output too small">>)
          [] o = "quoted" ->
                /\ pc' = [pc EXCEPT ![p] = "jup_send"]
                /\ UNCHANGED <<sell, SELL_REASONS>>
    /\ UNCHANGED <<PROGRESS_ON_SELLING, TOKEN_HOLDINGS, markerInserts>>
    /\ UNCHANGED <<bhVars, glb, rd, submitted, argVars>>

\* sell_token_with_jupiter: builds, signs and sends through the aggregator
JupSend(p) ==
    /\ pc[p] = "jup_send"
    /\ \E o \in {"sell_failed", "accepted", "accepted_bad_signature"} :
        CASE o = "sell_failed" ->
                /\ FallbackFail(p, sell[p], <<"Jupiter API sell failed: ">>)
                /\ UNCHANGED submitted
          [] o = "accepted_bad_signature" ->
                /\ Accept("jupiter", p, <<SwapInstruction(sell[p].token_amount)>>)
                /\ FallbackFail(p, sell[p], <<"Failed to parse signature: ">>)
          [] o = "accepted" ->
                /\ Accept("jupiter", p, <<SwapInstruction(sell[p].token_amount)>>)
                /\ SellReturn(p, sell[p], FallbackSuccessResult(Len(submitted) + 1))
    /\ UNCHANGED <<PROGRESS_ON_SELLING, TOKEN_HOLDINGS, markerInserts>>
    /\ UNCHANGED <<bhVars, glb, rd, argVars>>

(* ---------------- the decision layer and the wallet monitor ----------- *)
InsertSellReason(m) ==
    /\ m \notin SELL_REASONS
    /\ markerInserts < MaxMarkerInserts
    /\ SELL_REASONS' = SELL_REASONS \cup {m}
    /\ markerInserts' = markerInserts + 1
    /\ UNCHANGED <<PROGRESS_ON_SELLING, TOKEN_HOLDINGS>>
    /\ UNCHANGED <<bhVars, callVars, argVars>>

RemoveSellReason(m) ==
    /\ m \in SELL_REASONS
    /\ SELL_REASONS' = SELL_REASONS \ {m}
    /\ UNCHANGED <<PROGRESS_ON_SELLING, TOKEN_HOLDINGS, markerInserts>>
    /\ UNCHANGED <<bhVars, callVars, argVars>>

HoldingInsert(m) ==
    /\ ~IsSome(TOKEN_HOLDINGS[m])
    /\ \E n \in HoldingAmounts : TOKEN_HOLDINGS' = [TOKEN_HOLDINGS EXCEPT ![m] = Some(n)]
    /\ UNCHANGED <<SELL_REASONS, PROGRESS_ON_SELLING, markerInserts>>
    /\ UNCHANGED <<bhVars, callVars, argVars>>

HoldingRemove(m) ==
    /\ IsSome(TOKEN_HOLDINGS[m])
    /\ TOKEN_HOLDINGS' = [TOKEN_HOLDINGS EXCEPT ![m] = None]
    /\ UNCHANGED <<SELL_REASONS, PROGRESS_ON_SELLING, markerInserts>>
    /\ UNCHANGED <<bhVars, callVars, argVars>>

(* ------------------------- cache maintenance -------------------------- *)
\* cycles of the periodic cleanup loop
MaxCycles == 2

MaintIdle ==
    [pc |-> "tick", cycle |-> 0, todo |-> {}, guards |-> {}, skipped |-> {}, everSkipped |-> {},
     cleanup_result |-> "none", results |-> <<>>, building |-> {}]

\* where the sweep's future is suspended inside the time-boxed block
InBlock == {"prune_candles", "price_drops", "size_limits", "evict", "stuck_progress"}

\* a guard that forgets to release
GuardDropKeepsLock(locks, mint) == locks

\* impl Drop for TokenCleanupGuard
GuardDrop(locks, mint) == locks \ {mint}

\* dropping the future drops every guard it holds
DropGuards(locks, guards) ==
    {m \in locks : m \notin guards \/ m \in GuardDrop(locks, m)}

\* a timeout handed on to the caller as an error
CleanupReturnPropagates(cleanup_result) ==
    IF cleanup_result = "completed" THEN "Ok" ELSE "Err"

\* perform_comprehensive_cleanup returns Ok(()) after perform_cache_cleanup,
\* whose match on cleanup_result does nothing in any arm
CleanupReturn(cleanup_result) == "Ok"

\* main: interval.tick().await in the loop of the periodic cleanup task
PeriodicTick ==
    /\ maint.pc = "tick"
    /\ maint.cycle < MaxCycles
    /\ maint' = [maint EXCEPT !.pc = "start_cleanup"]
    /\ UNCHANGED <<CLEANUP_IN_PROGRESS, CLEANUP_COUNT>>
    /\ UNCHANGED <<bhVars, storeVars, callVars, trade_info, sell_config, asm, dec, calc, durableVars>>

\* perform_comprehensive_cleanup: start_cleanup(), then the time-boxed block begins
StartCleanup ==
    /\ maint.pc = "start_cleanup"
    /\ CLEANUP_COUNT' = CLEANUP_COUNT + 1
    /\ maint' = [maint EXCEPT !.pc = "prune_candles", !.todo = Mints, !.skipped = {},
                              !.cleanup_result = "none"]
    /\ UNCHANGED CLEANUP_IN_PROGRESS
    /\ UNCHANGED <<bhVars, storeVars, callVars, trade_info, sell_config, asm, dec, calc, durableVars>>

\* prune_candles_older_than returned; DEAD_TOKEN_LIST.retain follows without
\* a suspension point
PruneCandles ==
    /\ maint.pc = "prune_candles"
    /\ maint' = [maint EXCEPT !.pc = "price_drops"]
    /\ UNCHANGED <<CLEANUP_IN_PROGRESS, CLEANUP_COUNT>>
    /\ UNCHANGED <<bhVars, storeVars, callVars, trade_info, sell_config, asm, dec, calc, durableVars>>

\* cleanup_old_price_drops returned
PriceDrops ==
    /\ maint.pc = "price_drops"
    /\ maint' = [maint EXCEPT !.pc = "size_limits"]
    /\ UNCHANGED <<CLEANUP_IN_PROGRESS, CLEANUP_COUNT>>
    /\ UNCHANGED <<bhVars, storeVars, callVars, trade_info, sell_config, asm, dec, calc, durableVars>>

\* enforce_cache_size_limits, per mint: the lock is tried, never waited for
TryLockMint(m) ==
    /\ maint.pc = "size_limits"
    /\ m \in maint.todo
    /\ IF m \in CLEANUP_IN_PROGRESS
       THEN /\ maint' = [maint EXCEPT !.todo = @ \ {m}, !.skipped = @ \cup {m},
                                      !.everSkipped = @ \cup {m}]
            /\ UNCHANGED CLEANUP_IN_PROGRESS
       ELSE /\ CLEANUP_IN_PROGRESS' = CLEANUP_IN_PROGRESS \cup {m}
            /\ maint' = [maint EXCEPT !.pc = "evict", !.guards = @ \cup {m}]
    /\ UNCHANGED CLEANUP_COUNT
    /\ UNCHANGED <<bhVars, storeVars, callVars, trade_info, sell_config, asm, dec, calc, durableVars>>

\* the entry of a locked mint is removed if it has expired; the guard goes
\* out of scope
EvictMint(m) ==
    /\ maint.pc = "evict"
    /\ m \in maint.guards
    /\ \E expired \in BOOLEAN :
        TOKEN_HOLDINGS' = IF expired THEN [TOKEN_HOLDINGS EXCEPT ![m] = None] ELSE TOKEN_HOLDINGS
    /\ CLEANUP_IN_PROGRESS' = GuardDrop(CLEANUP_IN_PROGRESS, m)
    /\ maint' = [maint EXCEPT !.pc = "size_limits", !.guards = @ \ {m}, !.todo = @ \ {m}]
    /\ UNCHANGED <<CLEANUP_COUNT, SELL_REASONS, PROGRESS_ON_SELLING, markerInserts>>
    /\ UNCHANGED <<bhVars, callVars, trade_info, sell_config, asm, dec, calc, durableVars>>

\* enforce_cache_size_limits returned
SizeLimitsDone ==
    /\ maint.pc = "size_limits"
    /\ maint.todo = {}
    /\ maint' = [maint EXCEPT !.pc = "stuck_progress"]
    /\ UNCHANGED <<CLEANUP_IN_PROGRESS, CLEANUP_COUNT>>
    /\ UNCHANGED <<bhVars, storeVars, callVars, trade_info, sell_config, asm, dec, calc, durableVars>>

\* cleanup_stuck_progress_entries returned and the block ends with Ok(())
StuckProgress ==
    /\ maint.pc = "stuck_progress"
    /\ \E stuck \in SUBSET PROGRESS_ON_SELLING :
        PROGRESS_ON_SELLING' = PROGRESS_ON_SELLING \ stuck
    /\ maint' = [maint EXCEPT !.pc = "finish", !.cleanup_result = "completed"]
    /\ UNCHANGED <<CLEANUP_IN_PROGRESS, CLEANUP_COUNT, SELL_REASONS, TOKEN_HOLDINGS, markerInserts>>
    /\ UNCHANGED <<bhVars, callVars, trade_info, sell_config, asm, dec, calc, durableVars>>

\* tokio::time::timeout elapses: the block's future is dropped where it is
\* suspended and cleanup_result is Err(Elapsed)
SweepTimeout ==
    /\ maint.pc \in InBlock
    /\ CLEANUP_IN_PROGRESS' = DropGuards(CLEANUP_IN_PROGRESS, maint.guards)
    /\ maint' = [maint EXCEPT !.pc = "finish", !.cleanup_result = "timeout", !.guards = {}]
    /\ UNCHANGED CLEANUP_COUNT
    /\ UNCHANGED <<bhVars, storeVars, callVars, trade_info, sell_config, asm, dec, calc, durableVars>>

\* finish_cleanup() and the return of perform_comprehensive_cleanup
FinishCleanup ==
    /\ maint.pc = "finish"
    /\ CLEANUP_COUNT' = IF CLEANUP_COUNT > 0 THEN CLEANUP_COUNT - 1 ELSE CLEANUP_COUNT
    /\ maint' = [maint EXCEPT !.pc = "returned",
                              !.results = Append(@, [cleanup_result |-> maint.cleanup_result,
                                                     returned |-> CleanupReturn(maint.cleanup_result)])]
    /\ UNCHANGED CLEANUP_IN_PROGRESS
    /\ UNCHANGED <<bhVars, storeVars, callVars, trade_info, sell_config, asm, dec, calc, durableVars>>

\* main: both arms of the match on the result end the iteration of the loop
LoopNext ==
    /\ maint.pc = "returned"
    /\ maint' = [maint EXCEPT !.pc = "tick", !.cycle = @ + 1]
    /\ UNCHANGED <<CLEANUP_IN_PROGRESS, CLEANUP_COUNT>>
    /\ UNCHANGED <<bhVars, storeVars, callVars, trade_info, sell_config, asm, dec, calc, durableVars>>

\* a build takes the cleanup lock of its mint for the time it works on the entry
BuildLock(m) ==
    /\ m \notin CLEANUP_IN_PROGRESS
    /\ CLEANUP_IN_PROGRESS' = CLEANUP_IN_PROGRESS \cup {m}
    /\ maint' = [maint EXCEPT !.building = @ \cup {m}]
    /\ UNCHANGED CLEANUP_COUNT
    /\ UNCHANGED <<bhVars, storeVars, callVars, trade_info, sell_config, asm, dec, calc, durableVars>>

BuildUnlock(m) ==
    /\ m \in maint.building
    /\ CLEANUP_IN_PROGRESS' = CLEANUP_IN_PROGRESS \ {m}
    /\ maint' = [maint EXCEPT !.building = @ \ {m}]
    /\ UNCHANGED CLEANUP_COUNT
    /\ UNCHANGED <<bhVars, storeVars, callVars, trade_info, sell_config, asm, dec, calc, durableVars>>

SweepStep ==
    \/ PeriodicTick
    \/ StartCleanup
    \/ PruneCandles
    \/ PriceDrops
    \/ \E m \in Mints : TryLockMint(m)
    \/ \E m \in Mints : EvictMint(m)
    \/ SizeLimitsDone
    \/ StuckProgress
    \/ SweepTimeout
    \/ FinishCleanup
    \/ LoopNext

(* --------------------------- specification ---------------------------- *)
TradeInfos == [dex_type : DexTypes, mint : Mints, coin_creator : {None, Some("creator")}]
SwapConfigs == [in_type : {"Qty", "Pct"}, amount_in : AmountIns]

AsmIdle == [fn |-> "none", input |-> <<>>, done |-> FALSE, out |-> [panic |-> FALSE, ins |-> <<>>]]
DecIdle == [called |-> FALSE]
CalcIdle == [fn |-> "none", done |-> FALSE]
\* the bot started without a one-off flag and without NONCE_ACCOUNT
BotEnv == [command_mode |-> FALSE, NONCE_ACCOUNT |-> "unset"]

InitCore ==
    /\ LATEST_BLOCKHASH = None
    /\ BLOCKHASH_LAST_UPDATED = None
    /\ latestLock = FreeLock
    /\ tsLock = FreeLock
    /\ nextHash = 1
    /\ stampedHash = None
    /\ bgPc = "fetch"
    /\ bgHash = 0
    /\ pc = [p \in Callers |-> "idle"]
    /\ glb = [p \in Callers |-> GlbFresh]
    /\ rd = [r \in Readers |-> RdFresh]
    /\ SELL_REASONS = {}
    /\ PROGRESS_ON_SELLING = {}
    /\ markerInserts = 0
    /\ sell = [p \in SellProcs |-> SellFresh("execute_sell_with_retry_and_fallback", FALSE)]
    /\ submitted = <<>>
    /\ OFFCHAIN_BLOCKHASH = None
    /\ nonceSeq = 1
    /\ CLEANUP_IN_PROGRESS = {}
    /\ CLEANUP_COUNT = 0
    /\ maint = MaintIdle

Init ==
    /\ InitCore
    /\ env = BotEnv
    /\ TOKEN_HOLDINGS \in [Mints -> {None} \cup {Some(n) : n \in HoldingAmounts}]
    /\ trade_info \in TradeInfos
    /\ sell_config \in SwapConfigs
    /\ asm = AsmIdle
    /\ dec = DecIdle
    /\ calc = CalcIdle

\* the steps of the sell task p
SellStep(p) ==
    \/ SellCall(p)
    \/ PfGate(p)
    \/ PfProgress(p)
    \/ BuildStart(p)
    \/ BuildRpc(p)
    \/ GlbCheck(p)
    \/ GlbRead(p)
    \/ PfSend(p)
    \/ JupGate(p)
    \/ JupRpc(p)
    \/ JupQuote(p)
    \/ JupSend(p)

\* the steps of the consumer r of get_fresh_blockhash
ReaderStep(r) ==
    \/ ReaderCall(r)
    \/ GlbCheck(r)
    \/ GlbRead(r)
    \/ ReaderFetch(r)
    \/ ReaderWriteLatest(r)
    \/ ReaderWriteTimestamp(r)
    \/ ReaderReturn(r)

RefresherStep == BgFetch \/ BgWriteLatest \/ BgWriteTimestamp

StoreStep ==
    \E m \in Mints :
        \/ InsertSellReason(m)
        \/ RemoveSellReason(m)
        \/ HoldingInsert(m)
        \/ HoldingRemove(m)

\* one sell task, the store, the refresher and the clock
Next ==
    \/ SellStep("s1")
    \/ StoreStep
    \/ RefresherStep
    \/ Tick

Spec == Init /\ [][Next]_vars

\* the steps of the consumer r through the mode-selecting and durable entries
DurableStep(r) ==
    \/ StaticCall(r)
    \/ StaticOffRead(r)
    \/ TransactionCall(r)
    \/ GetOffchainCall(r)
    \/ OffchainRead(r)
    \/ UpdateOffchainCall(r)
    \/ OffchainFetch(r)
    \/ OffchainWrite(r)

\* the two slots alone, in every mode and configuration: the refresher, a
\* consumer, the durable account and the clock
InitBlockhash ==
    /\ InitCore
    /\ env \in Envs
    /\ TOKEN_HOLDINGS = [m \in Mints |-> None]
    /\ trade_info = [dex_type |-> "PumpFun", mint |-> "m1", coin_creator |-> Some("creator")]
    /\ sell_config = [in_type |-> "Pct", amount_in |-> 100]
    /\ asm = AsmIdle
    /\ dec = DecIdle
    /\ calc = CalcIdle

NextBlockhash ==
    \/ RefresherStep
    \/ \E r \in Readers : ReaderStep(r)
    \/ \E r \in Readers : DurableStep(r)
    \/ NonceAdvance
    \/ Tick

SpecBlockhash == InitBlockhash /\ [][NextBlockhash]_vars

\* two sell tasks for the same bonding-curve trade within one staleness
\* window, the marker inserted by the decision layer, and the refresher
InitRace ==
    /\ Init
    /\ trade_info.dex_type = "PumpFun"
    /\ IsSome(trade_info.coin_creator)
    /\ sell_config = [in_type |-> "Pct", amount_in |-> 100]

NextRace ==
    \/ \E p \in SellProcs : SellStep(p)
    \/ \E m \in Mints : InsertSellReason(m)
    \/ RefresherStep

SpecRace == InitRace /\ [][NextRace]_vars

\* the two kinds of consumer of the periodic slot side by side: a sell task
\* and a caller of get_fresh_blockhash, with the refresher and the clock
NextConsumers ==
    \/ SellStep("s1")
    \/ \E r \in Readers : ReaderStep(r)
    \/ \E m \in Mints : InsertSellReason(m)
    \/ RefresherStep
    \/ Tick

SpecConsumers == InitRace /\ [][NextConsumers]_vars

(* ----------------- transaction assembly on its own -------------------- *)
MaxCallerIx == 3
CallerIxKinds == {"create_associated_token_account", "swap", "close_account"}

RECURSIVE SeqsUpTo(_, _)
SeqsUpTo(S, n) ==
    IF n = 0 THEN {<<>>}
    ELSE LET shorter == SeqsUpTo(S, n - 1)
         IN shorter \cup {Append(q, x) : q \in {t \in shorter : Len(t) = n - 1}, x \in S}

CallerLists == SeqsUpTo({Ix(k) : k \in CallerIxKinds}, MaxCallerIx)

AssemblyFns ==
    {"tx::new_signed_and_send_zeroslot", "core::tx::new_signed_and_send_zeroslot",
     "core::tx::build_signed_buying_transaction"}

\* the assemblers that put an advance_nonce_account instruction in, for a
\* transaction signed over the durable nonce
UsesDurableNonce(fn) ==
    fn \in {"tx::new_signed_and_send_zeroslot", "core::tx::build_signed_buying_transaction"}

AssembleWith(fn, instructions) ==
    CASE fn = "tx::new_signed_and_send_zeroslot" -> RootZeroslotInstructions(instructions)
      [] fn = "core::tx::new_signed_and_send_zeroslot" -> CoreZeroslotInstructions(instructions)
      [] fn = "core::tx::build_signed_buying_transaction" -> BuildSignedBuyingInstructions(instructions)

\* one of the assemblers runs on the caller's instruction list
Assemble ==
    /\ ~asm.done
    /\ asm' = [asm EXCEPT !.done = TRUE, !.out = AssembleWith(asm.fn, asm.input)]
    /\ UNCHANGED <<bhVars, storeVars, callVars, trade_info, sell_config, dec, calc, durableVars, maintVars>>

InitQuiet ==
    /\ InitCore
    /\ env = BotEnv
    /\ TOKEN_HOLDINGS = [m \in Mints |-> None]
    /\ trade_info = [dex_type |-> "PumpFun", mint |-> "m1", coin_creator |-> Some("creator")]
    /\ sell_config = [in_type |-> "Pct", amount_in |-> 100]

InitTx ==
    /\ InitQuiet
    /\ asm \in {[fn |-> f, input |-> i, done |-> FALSE, out |-> Assembled(<<>>)] :
                    f \in AssemblyFns, i \in CallerLists}
    /\ dec = DecIdle
    /\ calc = CalcIdle

SpecTx == InitTx /\ [][Assemble]_vars

(* ----------------------- parse_transaction_data ----------------------- *)
\* how far around each recognized length the buffer lengths are drawn
LenSlack == 1
\* the largest raw value of a reserve or amount field
MaxField == 2

PUMP_SWAP_LEN_A == 368
PUMP_SWAP_LEN_B == 416
PUMP_FUN_LEN_A == 274
PUMP_FUN_LEN_B == 275
PUBKEY_BYTES == 32
U64_BYTES == 8

WSOL == "So11111111111111111111111111111111111111112"
DEFAULT_MINT == "2ivzYvjnKqA4X3dVvPKr7bctGpbxwrXbbxm44TJCpump"
SYSTEM_KEY == "11111111111111111111111111111111"

\* the arms of match buffer.len()
IsPumpSwapLen(n) == n \in {PUMP_SWAP_LEN_A, PUMP_SWAP_LEN_B}
\* a lower bound in place of the two exact lengths
IsPumpFunLenAtLeast(n) == n >= PUMP_FUN_LEN_A
IsPumpFunLen(n) == n \in {PUMP_FUN_LEN_A, PUMP_FUN_LEN_B}

\* &buffer[offset..offset + width]: out of range is a panic
SliceInRange(buffer, offset, width) == offset + width <= buffer.len

\* the outcome of a field read
Missing == [tag |-> "none"]
Slipped == [tag |-> "panic"]
Field(v) == [tag |-> "some", v |-> v]

\* a field read: missing when it does not fit, a panic when the slice is
\* taken out of range, else the little-endian value or the base58 text
ParseU64(buffer, offset) ==
    IF offset + U64_BYTES > buffer.len THEN Missing
    ELSE IF ~SliceInRange(buffer, offset, U64_BYTES) THEN Slipped
    ELSE Field(buffer.u64[offset])

ParsePublicKey(buffer, offset) ==
    IF offset + PUBKEY_BYTES > buffer.len THEN Missing
    ELSE IF ~SliceInRange(buffer, offset, PUBKEY_BYTES) THEN Slipped
    ELSE Field(buffer.key[offset])

\* buffer.get(64)
GetByte(buffer, offset) ==
    IF offset < buffer.len THEN Field(buffer.byte[offset]) ELSE Missing

\* extract_token_info: the first post token balance that is not wrapped SOL,
\* looking at three entries at most
ExtractTokenInfo(txn) ==
    LET b == txn.post_token_balances
        m == IF Len(b) = 0 THEN ""
             ELSE IF b[1] # WSOL THEN b[1]
             ELSE IF Len(b) <= 1 THEN b[1]
             ELSE IF b[2] # WSOL THEN b[2]
             ELSE IF Len(b) <= 2 THEN b[2]
             ELSE b[3]
    IN IF m = "" THEN DEFAULT_MINT ELSE m

\* a as f64 / b as f64 / 1_000.0, kept as an exact fraction; 0.0 is 0 / 1
Zero == [num |-> 0, den |-> 1]
PerThousand(a, b) == [num |-> a, den |-> b * 1000]

\* the guard on the token reserve left out
CalculatePriceUnguarded(virtual_sol, virtual_token) == PerThousand(virtual_sol, virtual_token)

CalculatePriceFromVirtualReserves(virtual_sol, virtual_token) ==
    IF virtual_token = 0 THEN Zero ELSE PerThousand(virtual_sol, virtual_token)

\* the price choice of the pooled-liquidity arm, used for the post-event
\* price (over the reserves) and the pre-event price (over the trade amounts)
PoolPriceIgnoringFlag(is_reverse, base, quote) ==
    IF base > 0 /\ quote > 0 THEN PerThousand(quote, base) ELSE Zero

PoolPrice(is_reverse, base, quote) ==
    IF base > 0 /\ quote > 0
    THEN IF is_reverse THEN PerThousand(base, quote) ELSE PerThousand(quote, base)
    ELSE Zero

DecodeResult(record) == [panic |-> FALSE, record |-> record]
DecodePanic == [panic |-> TRUE, record |-> None]

\* the reads of one arm happen in order and the first that is not a value
\* ends the arm: `?` returns None, an out-of-range slice panics
FirstFailed(reads) ==
    LET failed == {i \in DOMAIN reads : reads[i].tag # "some"}
    IN IF failed = {} THEN 0 ELSE CHOOSE i \in failed : \A j \in failed : i <= j
AnyMissing(reads) == FirstFailed(reads) # 0 /\ reads[FirstFailed(reads)].tag = "none"
AnyPanic(reads) == FirstFailed(reads) # 0 /\ reads[FirstFailed(reads)].tag = "panic"

ParsePumpSwap(txn, buffer) ==
    LET mint == ExtractTokenInfo(txn)
        reads == <<ParseU64(buffer, 16), ParseU64(buffer, 24), ParseU64(buffer, 56),
                   ParseU64(buffer, 64), ParseU64(buffer, 72),
                   ParsePublicKey(buffer, 128), ParsePublicKey(buffer, 320)>>
    IN IF AnyPanic(reads) THEN DecodePanic
       ELSE IF AnyMissing(reads) THEN DecodeResult(None)
       ELSE LET timestamp == reads[1].v
                base_amount == reads[2].v
                pool_base == reads[3].v
                pool_quote == reads[4].v
                quote_amount_out == reads[5].v
                pool_id == reads[6].v
                coin_creator == reads[7].v
                is_reverse == coin_creator = SYSTEM_KEY
                is_buy == IF is_reverse THEN txn.has_sell ELSE txn.has_buy
            IN DecodeResult(Some(
                 [dex_type |-> "PumpSwap", slot |-> 0, pool_id |-> pool_id, mint |-> mint,
                  timestamp |-> timestamp, is_buy |-> is_buy,
                  post_current_price |-> PoolPrice(is_reverse, pool_base, pool_quote),
                  pre_current_price |-> PoolPrice(is_reverse, base_amount, quote_amount_out),
                  is_reverse_when_pump_swap |-> is_reverse,
                  coin_creator |-> Some(coin_creator),
                  liquidity |-> IF is_reverse THEN pool_base ELSE pool_quote,
                  virtual_sol_reserves |-> pool_quote,
                  virtual_token_reserves |-> pool_base,
                  buy_sell_in_same_tx |-> FALSE]))

ParsePumpFun(txn, buffer) ==
    LET reads == <<ParsePublicKey(buffer, 16), ParseU64(buffer, 48), ParseU64(buffer, 56),
                   GetByte(buffer, 64), ParseU64(buffer, 97), ParseU64(buffer, 105),
                   ParseU64(buffer, 113), ParseU64(buffer, 121), ParsePublicKey(buffer, 185)>>
    IN IF AnyPanic(reads) THEN DecodePanic
       ELSE IF AnyMissing(reads) THEN DecodeResult(None)
       ELSE LET sol_amount == reads[2].v
                token_amount == reads[3].v
                virtual_sol_reserves == reads[6].v
                virtual_token_reserves == reads[7].v
            IN DecodeResult(Some(
                 [dex_type |-> "PumpFun", slot |-> txn.slot, pool_id |-> "",
                  mint |-> reads[1].v, timestamp |-> reads[5].v,
                  is_buy |-> reads[4].v = 1,
                  post_current_price |->
                      CalculatePriceFromVirtualReserves(virtual_sol_reserves, virtual_token_reserves),
                  pre_current_price |->
                      IF token_amount = 0 THEN Zero ELSE PerThousand(sol_amount, token_amount),
                  is_reverse_when_pump_swap |-> FALSE,
                  coin_creator |-> Some(reads[9].v),
                  liquidity |-> reads[8].v,
                  virtual_sol_reserves |-> virtual_sol_reserves,
                  virtual_token_reserves |-> virtual_token_reserves,
                  buy_sell_in_same_tx |-> txn.has_buy /\ txn.has_sell]))

parse_transaction_data(txn, buffer) ==
    IF IsPumpSwapLen(buffer.len) THEN ParsePumpSwap(txn, buffer)
    ELSE IF IsPumpFunLen(buffer.len) THEN ParsePumpFun(txn, buffer)
    ELSE DecodeResult(None)

RecognizedLens == {PUMP_SWAP_LEN_A, PUMP_SWAP_LEN_B, PUMP_FUN_LEN_A, PUMP_FUN_LEN_B}
BufferLens == {0} \cup {n + d : n \in RecognizedLens, d \in (0 - LenSlack)..LenSlack}

U64Offsets == {16, 24, 48, 56, 64, 72, 97, 105, 113, 121}
KeyOffsets == {16, 128, 185, 320}

\* a buffer of len bytes: the two reserve fields of either layout hold a and
\* b, the two trade amount fields c and d, every other numeric field 1, the
\* creator key is creator and byte 64 flag
BufferOf(len, a, b, c, d, creator, flag) ==
    [len |-> len,
     u64 |-> [o \in U64Offsets |-> IF o \in {56, 105} THEN a
                                    ELSE IF o \in {64, 113} THEN b
                                    ELSE IF o \in {24, 48} THEN c
                                    ELSE IF o = 72 THEN d ELSE 1],
     key |-> [o \in KeyOffsets |-> IF o \in {185, 320} THEN creator
                                    ELSE IF o = 16 THEN "mintA" ELSE "poolA"],
     byte |-> [o \in {64} |-> flag]]

Buffers ==
    {BufferOf(len, a, b, c, d, creator, flag) :
        len \in BufferLens, a \in 0..MaxField, b \in 0..MaxField,
        c \in 0..MaxField, d \in 0..MaxField,
        creator \in {SYSTEM_KEY, "creatorA"}, flag \in {0, 1}}

Txns ==
    [slot : {7}, has_buy : BOOLEAN, has_sell : BOOLEAN,
     post_token_balances : {<<>>, <<"mintA">>, <<WSOL, "mintA">>, <<WSOL, WSOL>>}]

ParseTransactionData ==
    /\ ~dec.called
    /\ dec' = [dec EXCEPT !.called = TRUE,
                          !.out = parse_transaction_data(dec.txn, dec.buffer)]
    /\ UNCHANGED <<bhVars, storeVars, callVars, trade_info, sell_config, asm, calc, durableVars, maintVars>>

InitParse ==
    /\ InitQuiet
    /\ asm = AsmIdle
    /\ dec \in {[called |-> FALSE, txn |-> t, buffer |-> b, out |-> DecodeResult(None)] :
                    t \in Txns, b \in Buffers}
    /\ calc = CalcIdle

SpecParse == InitParse /\ [][ParseTransactionData]_vars

(* --------------------- unsigned 64- and 128-bit integers -------------- *)
\* A natural number is kept as its base-1000 digits, least significant
\* digit first and without a leading zero digit, so that 64-bit and 128-bit
\* values and their products are computed exactly.
LimbBase == 10 ^ 3

\* digit i of s, 0 above its top digit
Digit(s, i) == IF i \in 1 .. Len(s) THEN s[i] ELSE 0

\* s without its leading zero digits
Trim(s) ==
    LET nonzero == {i \in 1 .. Len(s) : s[i] # 0}
    IN  IF nonzero = {} THEN <<>>
        ELSE SubSeq(s, 1, CHOOSE m \in nonzero : \A n \in nonzero : n <= m)

\* the number written in groups of three decimal digits, e.g. Thousands(<<1, 0, 0>>) is 1,000,000
Thousands(groups) == Trim([i \in 1 .. Len(groups) |-> groups[Len(groups) + 1 - i]])

BigZero == <<>>
BigOne == <<1>>
ShiftDigit(a) == IF a = <<>> THEN <<>> ELSE <<0>> \o a

\* a + b: the carry into digit i is 1 when a lower digit pair overflows and
\* every pair in between passes the carry on
BigAdd(a, b) ==
    LET n == (IF Len(a) > Len(b) THEN Len(a) ELSE Len(b)) + 1
        pair(i) == Digit(a, i) + Digit(b, i)
        carry(i) == IF \E j \in 1 .. (i - 1) :
                           /\ pair(j) >= LimbBase
                           /\ \A k \in (j + 1) .. (i - 1) : pair(k) = LimbBase - 1
                    THEN 1 ELSE 0
    IN  Trim([i \in 1 .. n |-> (pair(i) + carry(i)) % LimbBase])

\* a < b: the shorter number, or the one smaller at the topmost differing digit
BigLess(a, b) ==
    IF Len(a) # Len(b) THEN Len(a) < Len(b)
    ELSE \E i \in 1 .. Len(a) :
             /\ a[i] < b[i]
             /\ \A j \in (i + 1) .. Len(a) : a[j] = b[j]

BigLeq(a, b) == ~BigLess(b, a)
BigMin(a, b) == IF BigLess(b, a) THEN b ELSE a

\* a - b for a >= b, with the borrow of digit i found like the carry of BigAdd
BigSub(a, b) ==
    LET borrow(i) == IF \E j \in 1 .. (i - 1) :
                            /\ Digit(a, j) < Digit(b, j)
                            /\ \A k \in (j + 1) .. (i - 1) : Digit(a, k) = Digit(b, k)
                     THEN 1 ELSE 0
    IN  Trim([i \in 1 .. Len(a) |-> (Digit(a, i) + LimbBase - Digit(b, i) - borrow(i)) % LimbBase])

\* a * k for one digit k
MulDigit(a, k) ==
    BigAdd(Trim([i \in 1 .. Len(a) |-> (a[i] * k) % LimbBase]),
           ShiftDigit(Trim([i \in 1 .. Len(a) |-> (a[i] * k) \div LimbBase])))

RECURSIVE ColumnSum(_, _, _, _)
ColumnSum(a, b, i, j) ==
    IF j = 0 THEN 0 ELSE Digit(a, j) * Digit(b, i + 1 - j) + ColumnSum(a, b, i, j - 1)

\* a * b by the sums of its columns, each split into three digits
BigMul(a, b) ==
    LET n == Len(a) + Len(b)
        column == [i \in 1 .. n |-> ColumnSum(a, b, i, Len(a))]
        low == Trim([i \in 1 .. n |-> column[i] % LimbBase])
        mid == Trim([i \in 1 .. n |-> (column[i] \div LimbBase) % LimbBase])
        high == Trim([i \in 1 .. n |-> column[i] \div (LimbBase * LimbBase)])
    IN  BigAdd(BigAdd(low, ShiftDigit(mid)), ShiftDigit(ShiftDigit(high)))

\* the value of the digits of s from digit i up, for at most three digits
TopValue(s, i) == Digit(s, i) + LimbBase * Digit(s, i + 1) + LimbBase * LimbBase * Digit(s, i + 2)

\* the digit k with k * d <= rem < (k + 1) * d, for rem < LimbBase * d: the
\* quotient of the leading digits is off by at most one
QuotientDigit(rem, d) ==
    LET low == IF Len(d) > 2 THEN Len(d) - 1 ELSE 1
        estimate == TopValue(rem, low) \div TopValue(d, low)
    IN  CHOOSE k \in 0 .. (LimbBase - 1) :
            /\ k \in (estimate - 2) .. (estimate + 2)
            /\ BigLeq(MulDigit(d, k), rem)
            /\ BigLess(rem, MulDigit(d, k + 1))

\* long division of a by d from the top digit of a down: q holds the
\* quotient digits found so far, r the remainder of the digits consumed
RECURSIVE DivLoop(_, _, _, _)
DivLoop(a, d, q, r) ==
    IF Len(q) = Len(a) THEN [q |-> Trim(q), r |-> r]
    ELSE LET rem == Trim(<<a[Len(a) - Len(q)]>> \o r)
             digit == QuotientDigit(rem, d)
         IN  DivLoop(a, d, <<digit>> \o q, BigSub(rem, MulDigit(d, digit)))

\* quotient and remainder of a by d, for d > 0
DivRem(a, d) == DivLoop(a, d, <<>>, <<>>)

BigDiv(a, d) == DivRem(a, d).q
BigMod(a, d) == DivRem(a, d).r

U64_MAX == Thousands(<<18, 446, 744, 73, 709, 551, 615>>)
U128_AS_NARROW_AS_U64 == U64_MAX
U128_MAX == Thousands(<<340, 282, 366, 920, 938, 463, 463, 374, 607, 431, 768, 211, 455>>)

\* u128::saturating_mul, u128::saturating_add, u128::checked_div
SaturatingMul(a, b) == BigMin(BigMul(a, b), U128_MAX)
SaturatingAdd(a, b) == BigMin(BigAdd(a, b), U128_MAX)
\* the quotient rounded up instead of down
CheckedDivRoundingUp(a, b) ==
    IF b = BigZero THEN None
    ELSE IF BigMod(a, b) = BigZero THEN Some(BigDiv(a, b))
    ELSE Some(BigAdd(BigDiv(a, b), BigOne))
CheckedDiv(a, b) == IF b = BigZero THEN None ELSE Some(BigDiv(a, b))
UnwrapOr(opt, default) == IF IsSome(opt) THEN Unwrap(opt) ELSE default

\* `as u32` in place of `as u64`
AsU32(x) == BigMod(x, Thousands(<<4, 294, 967, 296>>))
\* `x as u64` for a u128 x keeps the low 64 bits
AsU64(x) == BigMod(x, BigAdd(U64_MAX, BigOne))

(* ------------------- bonding-curve arithmetic of Pump ----------------- *)
BuyNumerator(sol_amount_in, virtual_token_reserves) ==
    SaturatingMul(sol_amount_in, virtual_token_reserves)
BuyDenominator(sol_amount_in, virtual_sol_reserves) ==
    SaturatingAdd(virtual_sol_reserves, sol_amount_in)

calculate_buy_token_amount(sol_amount_in, virtual_sol_reserves, virtual_token_reserves) ==
    IF sol_amount_in = BigZero \/ virtual_sol_reserves = BigZero \/ virtual_token_reserves = BigZero
    THEN BigZero
    ELSE LET numerator == BuyNumerator(sol_amount_in, virtual_token_reserves)
             denominator == BuyDenominator(sol_amount_in, virtual_sol_reserves)
         IN  IF denominator = BigZero THEN BigZero
             ELSE AsU64(UnwrapOr(CheckedDiv(numerator, denominator), BigZero))

SellNumerator(token_amount_in, virtual_sol_reserves) ==
    SaturatingMul(token_amount_in, virtual_sol_reserves)
SellDenominator(token_amount_in, virtual_token_reserves) ==
    SaturatingAdd(virtual_token_reserves, token_amount_in)

\* the sell function computing the buy formula
SellComputedAsBuy(token_amount_in, virtual_sol_reserves, virtual_token_reserves) ==
    calculate_buy_token_amount(token_amount_in, virtual_sol_reserves, virtual_token_reserves)

calculate_sell_sol_amount(token_amount_in, virtual_sol_reserves, virtual_token_reserves) ==
    IF token_amount_in = BigZero \/ virtual_sol_reserves = BigZero \/ virtual_token_reserves = BigZero
    THEN BigZero
    ELSE LET numerator == SellNumerator(token_amount_in, virtual_sol_reserves)
             denominator == SellDenominator(token_amount_in, virtual_token_reserves)
         IN  IF denominator = BigZero THEN BigZero
             ELSE AsU64(UnwrapOr(CheckedDiv(numerator, denominator), BigZero))

\* the u64 arguments the functions are called with: the small values, the
\* initial reserves of a curve, one native unit, and the top of the range
MaxSmall == 2
INITIAL_VIRTUAL_SOL_RESERVES == Thousands(<<30, 0, 0, 0>>)
INITIAL_VIRTUAL_TOKEN_RESERVES == Thousands(<<1, 73, 0, 0, 0, 0>>)
LAMPORTS_PER_SOL == Thousands(<<1, 0, 0, 0>>)
U64Inputs ==
    {Thousands(<<n>>) : n \in 0 .. MaxSmall}
        \cup {LAMPORTS_PER_SOL, INITIAL_VIRTUAL_SOL_RESERVES, INITIAL_VIRTUAL_TOKEN_RESERVES,
              BigSub(U64_MAX, BigOne), U64_MAX}

CurveFns == {"calculate_buy_token_amount", "calculate_sell_sol_amount"}

CurveApply(fn, amount_in, virtual_sol_reserves, virtual_token_reserves) ==
    IF fn = "calculate_buy_token_amount"
    THEN calculate_buy_token_amount(amount_in, virtual_sol_reserves, virtual_token_reserves)
    ELSE calculate_sell_sol_amount(amount_in, virtual_sol_reserves, virtual_token_reserves)

\* one of the two functions runs on its three arguments
Calculate ==
    /\ calc.fn \in CurveFns
    /\ ~calc.done
    /\ calc' = [calc EXCEPT !.done = TRUE,
                            !.out = CurveApply(calc.fn, calc.amount_in, calc.virtual_sol_reserves,
                                               calc.virtual_token_reserves)]
    /\ UNCHANGED <<bhVars, storeVars, callVars, trade_info, sell_config, asm, dec, durableVars, maintVars>>

InitCurve ==
    /\ InitQuiet
    /\ asm = AsmIdle
    /\ dec = DecIdle
    /\ calc \in {[fn |-> f, amount_in |-> x, virtual_sol_reserves |-> vs,
                  virtual_token_reserves |-> vt, done |-> FALSE, out |-> BigZero] :
                    f \in CurveFns, x \in U64Inputs, vs \in U64Inputs, vt \in U64Inputs}

SpecCurve == InitCurve /\ [][Calculate]_vars

(* --------------- build_swap_from_parsed_data, buy direction ----------- *)
TEN_THOUSAND == Thousands(<<10, 0>>)

\* u64::checked_add and u64::checked_mul
CheckedAdd64(a, b) == IF BigLess(U64_MAX, BigAdd(a, b)) THEN None ELSE Some(BigAdd(a, b))
CheckedMul64(a, b) == IF BigLess(U64_MAX, BigMul(a, b)) THEN None ELSE Some(BigMul(a, b))

\* spl_token::ui_amount_to_amount(ui_amount, native_mint::DECIMALS) for a
\* whole number of SOL: (ui_amount * 10^9) as u64
UiAmountToAmount(ui_amount) == BigMul(Thousands(<<ui_amount>>), LAMPORTS_PER_SOL)

\* None where one of the unwrap() calls panics
max_amount_with_slippage(input_amount, slippage_bps) ==
    LET factor == CheckedAdd64(slippage_bps, TEN_THOUSAND)
        product == CheckedMul64(input_amount, Unwrap(factor))
    IN  IF ~IsSome(factor) THEN None
        ELSE IF ~IsSome(product) THEN None
        ELSE CheckedDiv(Unwrap(product), TEN_THOUSAND)

CreateAtaInstruction == [kind |-> "create_associated_token_account_idempotent"]
BuySwapInstruction(token_amount, sol_amount_threshold) ==
    [kind |-> "swap", amount |-> token_amount, threshold |-> sol_amount_threshold]

\* the account-creation step left out of the list
BuildTailWithoutCreate(create_instruction, swap_instruction, has_amount) ==
    IF has_amount
    THEN [ok |-> TRUE, instructions |-> <<swap_instruction>>, err |-> <<>>]
    ELSE [ok |-> FALSE, instructions |-> <<>>, err |-> <<"Instructions is empty, no txn required.">>]

\* the tail of build_swap_from_parsed_data for either direction
BuildTail(create_instruction, swap_instruction, has_amount) ==
    LET instructions ==
            (IF IsSome(create_instruction) THEN <<Unwrap(create_instruction)>> ELSE <<>>)
                \o (IF has_amount THEN <<swap_instruction>> ELSE <<>>)
    IN  IF instructions = <<>>
        THEN [ok |-> FALSE, instructions |-> <<>>, err |-> <<"Instructions is empty, no txn required.">>]
        ELSE [ok |-> TRUE, instructions |-> instructions, err |-> <<>>]

BuildPanicked == [ok |-> FALSE, instructions |-> <<>>, err |-> <<"panicked">>]

\* build_swap_from_parsed_data with swap_direction = Buy: the result and
\* the token amount computed on the way
BuildBuyFromParsedData(amount_in, buy_slippage, coin_creator, virtual_sol_reserves, virtual_token_reserves) ==
    LET create_instruction == Some(CreateAtaInstruction)
        amount_specified == UiAmountToAmount(amount_in)
        max_sol_cost == max_amount_with_slippage(amount_specified, buy_slippage)
        tokens_out == calculate_buy_token_amount(amount_specified, virtual_sol_reserves,
                                                 virtual_token_reserves)
    IN  IF ~IsSome(coin_creator)
        THEN [token_amount |-> None, result |-> BuildErr("Coin creator not found in trade info")]
        ELSE IF ~IsSome(max_sol_cost)
        THEN [token_amount |-> None, result |-> BuildPanicked]
        ELSE [token_amount |-> Some(tokens_out),
              result |-> BuildTail(create_instruction,
                                   BuySwapInstruction(tokens_out, Unwrap(max_sol_cost)),
                                   tokens_out # BigZero)]

\* BUY_SLIPPAGE in basis points: the default and the cap of Config::new
BuySlippages == {Thousands(<<700>>), Thousands(<<50, 0>>)}
\* whole numbers of SOL configured as the amount of a buy
BuyAmounts == 0 .. MaxSmall

\* a buy build runs on its configuration and the decoded record
BuildBuy ==
    /\ calc.fn = "build_swap_from_parsed_data"
    /\ ~calc.done
    /\ LET built == BuildBuyFromParsedData(calc.amount_in, calc.buy_slippage, calc.coin_creator,
                                           calc.virtual_sol_reserves, calc.virtual_token_reserves)
       IN  calc' = [calc EXCEPT !.done = TRUE, !.token_amount = built.token_amount,
                                !.out = built.result]
    /\ UNCHANGED <<bhVars, storeVars, callVars, trade_info, sell_config, asm, dec, durableVars, maintVars>>

InitBuy ==
    /\ InitQuiet
    /\ asm = AsmIdle
    /\ dec = DecIdle
    /\ calc \in {[fn |-> "build_swap_from_parsed_data", swap_direction |-> "Buy",
                  amount_in |-> n, buy_slippage |-> s, coin_creator |-> c,
                  virtual_sol_reserves |-> vs, virtual_token_reserves |-> vt,
                  done |-> FALSE, token_amount |-> None, out |-> BuildErr("")] :
                    n \in BuyAmounts, s \in BuySlippages, c \in {None, Some("creator")},
                    vs \in U64Inputs, vt \in U64Inputs}

SpecBuy == InitBuy /\ [][BuildBuy]_vars

(* ----------------------- max_amount_with_slippage --------------------- *)
\* Config::new: BUY_SLIPPAGE above max_slippage (50000 bps) is replaced by it
max_slippage == Thousands(<<50, 0>>)
ConfigBuySlippage(buy_slippage_input) ==
    IF BigLess(max_slippage, buy_slippage_input) THEN max_slippage ELSE buy_slippage_input

\* values of BUY_SLIPPAGE that parse as u64: small ones, the default, 100 %,
\* the cap, one above the cap, and the top of the range
BuySlippageInputs ==
    {Thousands(<<n>>) : n \in 0 .. MaxSmall}
        \cup {Thousands(<<700>>), TEN_THOUSAND, max_slippage,
              BigAdd(max_slippage, BigOne), U64_MAX}

\* max_amount_with_slippage runs on a nominal input and the configured slippage
Slippage ==
    /\ calc.fn = "max_amount_with_slippage"
    /\ ~calc.done
    /\ calc' = [calc EXCEPT !.done = TRUE,
                            !.out = max_amount_with_slippage(calc.input_amount, calc.slippage_bps)]
    /\ UNCHANGED <<bhVars, storeVars, callVars, trade_info, sell_config, asm, dec, durableVars, maintVars>>

InitSlippage ==
    /\ InitQuiet
    /\ asm = AsmIdle
    /\ dec = DecIdle
    /\ calc \in {[fn |-> "max_amount_with_slippage", input_amount |-> x,
                  buy_slippage_input |-> s, slippage_bps |-> ConfigBuySlippage(s),
                  done |-> FALSE, out |-> None] :
                    x \in U64Inputs, s \in BuySlippageInputs}

SpecSlippage == InitSlippage /\ [][Slippage]_vars

(* ------------- build_swap_from_parsed_data, Sell, Pct amount ---------- *)
\* a natural below 10^6 as a number of the library
BigOfNat(n) == Thousands(<<n \div LimbBase, n % LimbBase>>)
BigMax(a, b) == IF BigLess(a, b) THEN b ELSE a

\* 2^53: up to here every integer is an f64
TWO_POW_53 == Thousands(<<9, 7, 199, 254, 740, 992>>)

\* the spacing of the f64 values around x < 2^64: 1 below 2^53, doubling
\* with every further bit
Ulp(x) ==
    LET fits(k) == BigLess(x, BigMul(TWO_POW_53, BigOfNat(2 ^ k)))
        k == CHOOSE j \in 0 .. 11 : fits(j) /\ \A i \in 0 .. (j - 1) : ~fits(i)
    IN  BigOfNat(2 ^ k)

\* x as f64: the nearest f64 value, a tie going to the even significand
U64AsF64(x) ==
    LET q == Ulp(x)
        r == BigMod(x, q)
        lo == BigSub(x, r)
        hi == BigAdd(lo, q)
        twice == BigAdd(r, r)
    IN  IF r = BigZero THEN x
        ELSE IF BigLess(twice, q) THEN lo
        ELSE IF BigLess(q, twice) THEN hi
        ELSE IF BigMod(BigDiv(lo, q), BigOfNat(2)) = BigZero THEN lo
        ELSE hi

\* v as u64 for an f64 v >= 0 given as numerator over 4: truncated, and
\* u64::MAX above the range
F64AsU64(quarters) == BigMin(BigDiv(quarters, BigOfNat(4)), U64_MAX)

\* ((percentage * amount_value as f64) as u64).max(1) with percentage =
\* swap_config.amount_in.min(1.0); amount_in is given in quarters, whose
\* products with an f64 are exact when amount_in is 0 or a power of two
PctTokenAmount(amount_in, amount_value) ==
    LET percentage == Min(amount_in, 4)
    IN  BigMax(F64AsU64(BigMul(BigOfNat(percentage), U64AsF64(amount_value))), BigOne)

\* SwapConfig.amount_in in quarters: 0, 0.25, 0.5, 1.0 and 1.5
PctAmountIns == {0, 1, 2, 4, 6}

\* raw amounts of a holding: the small ones, a bought position, the ends of
\* the range in which every integer is an f64, and the top of u64
HoldingRaws ==
    {Thousands(<<n>>) : n \in 0 .. MaxSmall}
        \cup {Thousands(<<3, 0, 0>>), TWO_POW_53, BigAdd(TWO_POW_53, BigOne),
              BigAdd(TWO_POW_53, BigOfNat(3)), BigSub(U64_MAX, BigOne), U64_MAX}

\* the branches of the sell arm that apply a percentage to a raw amount
HoldingSources == {"TOKEN_HOLDINGS", "get_token_account"}

\* a percentage sell resolves its token amount from the raw amount
ResolvePct ==
    /\ calc.fn = "sell_token_amount"
    /\ ~calc.done
    /\ calc' = [calc EXCEPT !.done = TRUE,
                            !.out = PctTokenAmount(calc.amount_in, calc.raw_amount)]
    /\ UNCHANGED <<bhVars, storeVars, callVars, trade_info, sell_config, asm, dec, durableVars, maintVars>>

InitPct ==
    /\ InitQuiet
    /\ asm = AsmIdle
    /\ dec = DecIdle
    /\ calc \in {[fn |-> "sell_token_amount", in_type |-> "Pct", from |-> f,
                  amount_in |-> a, raw_amount |-> h, done |-> FALSE, out |-> BigZero] :
                    f \in HoldingSources, a \in PctAmountIns, h \in HoldingRaws}

SpecPct == InitPct /\ [][ResolvePct]_vars

(* ------------------- the sweep beside a build ------------------------- *)
InitSweep ==
    /\ InitQuiet
    /\ asm = AsmIdle
    /\ dec = DecIdle
    /\ calc = CalcIdle

NextSweep ==
    \/ SweepStep
    \/ \E m \in Mints : BuildLock(m)
    \/ \E m \in Mints : BuildUnlock(m)
    \/ \E m \in Mints : HoldingInsert(m)

SpecSweep == InitSweep /\ [][NextSweep]_vars

(* ======================== properties of the sell path ================= *)
Orchestrated(p) == sell[p].entry = "execute_sell_with_retry_and_fallback"
PumpReturned(p) == sell[p].pumpResult # <<>>
PumpSucceeded(p) == sell[p].pumpResult = <<"ok">>
PumpFailed(p) == PumpReturned(p) /\ ~PumpSucceeded(p)
PreconditionViolation(p) ==
    sell[p].pumpResult = <<"Sell reason not set - skipping transaction building">>
Returned(p) == pc[p] = "done" /\ Orchestrated(p) /\ sell[p].result.set
SecondarySucceeded(p) ==
    pc[p] = "done" /\ sell[p].secondaryAttempts = 1 /\ sell[p].jupErr = <<>>
SubmissionsOf(p, channel) ==
    {i \in 1..Len(submitted) : submitted[i].by = p /\ submitted[i].channel = channel}

\* C1: two invocations of execute_pumpfun_sell for the same mint, the second
\* entered while the first was in flight, the marker inserted once before
\* both: when both have returned with a success or a precondition violation,
\* exactly one of them succeeded and the other got the precondition violation.
C1_ExactlyOneSellBuildPerMarker ==
    ( /\ markerInserts = 1
      /\ \E p \in SellProcs : sell[p].overlapped
      /\ \A p \in SellProcs :
            /\ Orchestrated(p)
            /\ sell[p].markerAtCall
            /\ PumpSucceeded(p) \/ PreconditionViolation(p) )
    => /\ Cardinality({p \in SellProcs : PumpSucceeded(p)}) = 1
       /\ Cardinality({p \in SellProcs : PreconditionViolation(p)}) = 1

\* C2: a sell build that starts while the mint's marker is absent returns an
\* error and emits no instruction, whichever entry it was reached through.
C2_NoMarkerNoBuild ==
    \A p \in SellProcs :
        (sell[p].built /\ ~sell[p].buildSawMarker)
            => ~sell[p].build.ok /\ sell[p].build.instructions = <<>>

\* C3: a caller of get_latest_blockhash / get_fresh_blockhash that got a value
\* out of the cache, without a fetch of its own, checked a timestamp that was
\* present and not older than the staleness threshold, and the value is the
\* one that timestamp was taken for.
CachedValueOf(p) ==
    IF p \in Readers
    THEN IF pc[p] = "done" /\ rd[p].cached THEN rd[p].result ELSE None
    ELSE sell[p].blockhash

C3_NoStaleValueWithoutRefresh ==
    \A p \in Callers :
        IsSome(CachedValueOf(p))
            => /\ glb[p].seen
               /\ glb[p].age * SecondsPerTick <= BLOCKHASH_STALENESS_THRESHOLD
               /\ glb[p].stamp = CachedValueOf(p)

\* a consumer was handed a cached value whose timestamp had aged, and a
\* sell task was refused a hash because the slot was stale
C3_Witness ==
    /\ \E r \in Readers : IsSome(CachedValueOf(r)) /\ glb[r].age >= 1
    /\ \E p \in SellProcs : sell[p].noHashSeen /\ glb[p].seen

\* C4: every consumer that finds the periodic slot stale or empty fetches
\* from the network, a successful fetch leaves the slot populated, and the
\* sell path does not fail for want of a cached hash.
C4_StaleOrEmptyTriggersFetch ==
    /\ \A r \in Readers :
          pc[r] = "done" => /\ rd[r].cached \/ rd[r].fetched
                            /\ (rd[r].fetched /\ ~rd[r].failed)
                                   => IsSome(LATEST_BLOCKHASH) /\ IsSome(BLOCKHASH_LAST_UPDATED)
    /\ \A p \in SellProcs : ~sell[p].noHashSeen

\* C5 as claimed: each channel is attempted at most once in a call, the
\* secondary only after an attempt of the primary has failed.
C5_SecondaryOnlyAfterPrimaryFailed ==
    \A p \in SellProcs :
        Orchestrated(p) =>
            /\ sell[p].primaryAttempts <= 1
            /\ sell[p].secondaryAttempts <= 1
            /\ sell[p].secondaryAttempts >= 1 => sell[p].primaryAttempts = 1 /\ PumpFailed(p)

\* C5 amended: each channel is attempted, and accepts a transaction, at most
\* once in a call; the secondary is attempted only after the one attempt of
\* the primary has failed, or after the primary was skipped because the
\* record is not a bonding-curve (PumpFun) record.
C5_TwoTierFallback ==
    \A p \in SellProcs :
        Orchestrated(p) =>
            /\ sell[p].primaryAttempts <= 1
            /\ sell[p].secondaryAttempts <= 1
            /\ Cardinality(SubmissionsOf(p, "zeroslot")) <= 1
            /\ Cardinality(SubmissionsOf(p, "jupiter")) <= 1
            /\ sell[p].secondaryAttempts >= 1 =>
                  \/ sell[p].primaryAttempts = 1 /\ PumpFailed(p)
                  \/ sell[p].primaryAttempts = 0 /\ trade_info.dex_type # "PumpFun"

\* the primary was attempted once and failed after the relay had accepted
\* the transaction, then the secondary was attempted once and succeeded
C5_Witness ==
    \E p \in SellProcs :
        /\ Returned(p)
        /\ sell[p].primaryAttempts = 1 /\ PumpFailed(p)
        /\ sell[p].secondaryAttempts = 1
        /\ sell[p].result.success

\* C6: primary failed and secondary succeeded gives a success flagged as
\* fallback, carrying the aggregator's signature and no error; a primary
\* success gives a success not flagged as fallback.
C6_FallbackSuccessFlagged ==
    \A p \in SellProcs :
        Returned(p) =>
            /\ (~PumpSucceeded(p) /\ SecondarySucceeded(p)) =>
                  /\ sell[p].result.success
                  /\ sell[p].result.used_jupiter_fallback
                  /\ sell[p].result.error = None
                  /\ IsSome(sell[p].result.signature)
                  /\ Unwrap(sell[p].result.signature) \in SubmissionsOf(p, "jupiter")
            /\ PumpSucceeded(p) =>
                  /\ sell[p].result.success
                  /\ ~sell[p].result.used_jupiter_fallback
                  /\ sell[p].result.error = None
                  /\ IsSome(sell[p].result.signature)
                  /\ Unwrap(sell[p].result.signature) \in SubmissionsOf(p, "zeroslot")

C6_Witness ==
    \E p \in SellProcs :
        /\ Returned(p)
        /\ PumpFailed(p)
        /\ SecondarySucceeded(p)
        /\ sell[p].result.used_jupiter_fallback

\* C7: when the primary did not succeed and the secondary failed, the call
\* reports failure without a signature, and the error ends with the message
\* of the secondary channel's failure.
C7_BothFailedKeepsLastError ==
    \A p \in SellProcs :
        (Returned(p) /\ ~PumpSucceeded(p) /\ sell[p].jupErr # <<>>) =>
            /\ ~sell[p].result.success
            /\ sell[p].result.signature = None
            /\ IsSome(sell[p].result.error)
            /\ LET msg == Unwrap(sell[p].result.error) IN
                  /\ Len(msg) > Len(sell[p].jupErr)
                  /\ SubSeq(msg, Len(msg) - Len(sell[p].jupErr) + 1, Len(msg)) = sell[p].jupErr

\* both channels were attempted and failed, with different messages
C7_Witness ==
    \E p \in SellProcs :
        /\ Returned(p)
        /\ PumpFailed(p)
        /\ sell[p].jupErr = <<"Jupiter API sell failed: ">>
        /\ ~sell[p].result.success

\* C8: no step of a sell call changes SELL_REASONS.
C8_SellNeverClearsMarker ==
    [][(\E p \in SellProcs : pc'[p] # pc[p]) => SELL_REASONS' = SELL_REASONS]_vars

\* calls returned with the marker that was there at the start still there
C8_Witness ==
    \E p \in SellProcs :
        /\ Returned(p)
        /\ sell[p].markerAtCall
        /\ trade_info.mint \in SELL_REASONS
        /\ sell[p].result.success

(* ===================== properties of the assembly ===================== *)
\* the fixed order: nonce advance (durable only), compute unit limit and
\* price, the caller's instructions, the tip transfer
ExpectedOrder(durable, callers) ==
    (IF durable THEN <<NonceIx>> ELSE <<>>)
        \o <<UnitLimitIx, UnitPriceIx>> \o callers \o <<TipIx>>

\* C9: for every non-empty caller list, every assembler for the priority
\* relay produces the nonce advance first (when it signs over the durable
\* nonce), then the two compute budget instructions, then the caller's
\* instructions in their order, then the tip transfer last.
C9_FixedInstructionOrder ==
    (asm.done /\ asm.input # <<>>) =>
        /\ ~asm.out.panic
        /\ asm.out.ins = ExpectedOrder(UsesDurableNonce(asm.fn), asm.input)

(* ====================== properties of the decoder ===================== *)
\* C10: a buffer whose length is none of 368, 416, 274, 275 decodes to no
\* record, without a panic, whatever the transaction metadata holds.
C10_UnrecognizedLengthDecodesToNone ==
    (dec.called /\ dec.buffer.len \notin {368, 416, 274, 275}) =>
        ~dec.out.panic /\ dec.out.record = None

\* a buffer one byte longer than the longest bonding-curve layout, which
\* holds every field either layout reads, has been decoded
C10_Witness ==
    /\ dec.called
    /\ dec.buffer.len = 276
    /\ dec.txn.post_token_balances # <<>>
    /\ dec.out.record = None

\* the pooled-liquidity record decoded in this state, if there is one
PoolRecordDecoded ==
    /\ dec.called
    /\ IsPumpSwapLen(dec.buffer.len)
    /\ ~dec.out.panic
    /\ IsSome(dec.out.record)

CurveRecordDecoded ==
    /\ dec.called
    /\ IsPumpFunLen(dec.buffer.len)
    /\ ~dec.out.panic
    /\ IsSome(dec.out.record)

\* buffer with the flag cleared and base and quote exchanged, in the reserve
\* fields (56, 64) and in the trade amount fields (24, 72)
SwapSides(buffer) ==
    [buffer EXCEPT !.u64 = [o \in U64Offsets |->
                               CASE o = 56 -> buffer.u64[64]
                                 [] o = 64 -> buffer.u64[56]
                                 [] o = 24 -> buffer.u64[72]
                                 [] o = 72 -> buffer.u64[24]
                                 [] OTHER -> buffer.u64[o]],
                   !.key = [buffer.key EXCEPT ![320] = "creatorA"]]

\* C11: a pooled-liquidity buffer with the reversed flag set, and the same
\* buffer with the flag cleared and the reserve fields and the trade amount
\* fields swapped, decode to records with the same post-event price and the
\* same pre-event price.
C11_ReversedFlagRoundTrip ==
    (PoolRecordDecoded /\ dec.buffer.key[320] = SYSTEM_KEY) =>
        LET flagged == Unwrap(dec.out.record)
            other == parse_transaction_data(dec.txn, SwapSides(dec.buffer))
        IN /\ flagged.is_reverse_when_pump_swap
           /\ ~other.panic /\ IsSome(other.record)
           /\ ~Unwrap(other.record).is_reverse_when_pump_swap
           /\ Unwrap(other.record).post_current_price = flagged.post_current_price
           /\ Unwrap(other.record).pre_current_price = flagged.pre_current_price

\* a flagged buffer whose reserves differ and whose amounts differ, all of
\* them positive, has been decoded
C11_Witness ==
    /\ PoolRecordDecoded
    /\ dec.buffer.key[320] = SYSTEM_KEY
    /\ dec.buffer.u64[56] = 2 /\ dec.buffer.u64[64] = 1
    /\ dec.buffer.u64[24] = 1 /\ dec.buffer.u64[72] = 2
    /\ Unwrap(dec.out.record).post_current_price = PerThousand(2, 1)

\* C12: in a pooled-liquidity record the flag decides which raw reserve is
\* the native side: clear, virtual_sol_reserves and liquidity are the quote
\* reserve and virtual_token_reserves the base reserve; set, virtual_sol_reserves
\* and liquidity are the base reserve and virtual_token_reserves the quote one.
C12_FlagGovernsNativeSide ==
    PoolRecordDecoded =>
        LET r == Unwrap(dec.out.record)
            base == dec.buffer.u64[56]
            quote == dec.buffer.u64[64]
        IN IF dec.buffer.key[320] = SYSTEM_KEY
           THEN r.virtual_sol_reserves = base /\ r.liquidity = base
                    /\ r.virtual_token_reserves = quote
           ELSE r.virtual_sol_reserves = quote /\ r.liquidity = quote
                    /\ r.virtual_token_reserves = base

IsZeroPrice(price) == price.num = 0 /\ price.den > 0

\* C13: no decoded price is a division by zero; the pooled-liquidity
\* post-event price is 0.0 when either pool reserve is 0, and the
\* bonding-curve post-event price, calculate_price_from_virtual_reserves of
\* the two virtual reserves, is 0.0 when either of them is 0.
C13_ZeroReservesZeroPrice ==
    /\ (PoolRecordDecoded \/ CurveRecordDecoded) =>
          /\ Unwrap(dec.out.record).post_current_price.den > 0
          /\ Unwrap(dec.out.record).pre_current_price.den > 0
    /\ (PoolRecordDecoded /\ (dec.buffer.u64[56] = 0 \/ dec.buffer.u64[64] = 0)) =>
          Unwrap(dec.out.record).post_current_price = Zero
    /\ (CurveRecordDecoded /\ (dec.buffer.u64[105] = 0 \/ dec.buffer.u64[113] = 0)) =>
          IsZeroPrice(Unwrap(dec.out.record).post_current_price)

\* both arms met a zero reserve: here a bonding-curve event whose native
\* reserve is 0 and whose token reserve is not, the case the guard leaves
\* to the division
C13_Witness ==
    /\ CurveRecordDecoded
    /\ dec.buffer.u64[105] = 0 /\ dec.buffer.u64[113] = 2
    /\ Unwrap(dec.out.record).post_current_price = PerThousand(0, 2)

(* =================== properties of the curve arithmetic =============== *)
AnyArgumentZero ==
    BigZero \in {calc.amount_in, calc.virtual_sol_reserves, calc.virtual_token_reserves}

\* floor(amount * reserve_out / (reserve_in + amount)) over the naturals
FloorOfRatio(amount, reserve_out, reserve_in) ==
    BigDiv(BigMul(amount, reserve_out), BigAdd(reserve_in, amount))

\* C14: for all u64 arguments calculate_buy_token_amount(sol_in, vs, vt) is
\* floor(sol_in * vt / (vs + sol_in)) and calculate_sell_sol_amount(token_in,
\* vs, vt) is floor(token_in * vs / (vt + token_in)), and each is 0 when one
\* of its three arguments is 0.
C14_CurveFormulas ==
    calc.done =>
        calc.out =
            IF AnyArgumentZero THEN BigZero
            ELSE IF calc.fn = "calculate_buy_token_amount"
                 THEN FloorOfRatio(calc.amount_in, calc.virtual_token_reserves, calc.virtual_sol_reserves)
                 ELSE FloorOfRatio(calc.amount_in, calc.virtual_sol_reserves, calc.virtual_token_reserves)

\* a sell of the largest u64 amount against the initial reserves of a curve
C14_Witness ==
    /\ calc.done
    /\ calc.fn = "calculate_sell_sol_amount"
    /\ calc.amount_in = U64_MAX
    /\ calc.virtual_sol_reserves = INITIAL_VIRTUAL_SOL_RESERVES
    /\ calc.virtual_token_reserves = INITIAL_VIRTUAL_TOKEN_RESERVES
    /\ calc.out # BigZero

CurveOutputFor(amount_in) ==
    CurveApply(calc.fn, amount_in, calc.virtual_sol_reserves, calc.virtual_token_reserves)

\* C15: with the two reserves fixed, the output of calculate_buy_token_amount
\* and of calculate_sell_sol_amount does not decrease when the input amount
\* grows, up to the largest u64 amount.
C15_MonotoneInAmount ==
    calc.done =>
        /\ \A larger \in U64Inputs :
               BigLeq(calc.amount_in, larger) => BigLeq(calc.out, CurveOutputFor(larger))
        /\ calc.amount_in # U64_MAX =>
               BigLeq(calc.out, CurveOutputFor(BigAdd(calc.amount_in, BigOne)))

\* an amount whose output is positive and strictly below the output of the largest amount
C15_Witness ==
    /\ calc.done
    /\ calc.amount_in = LAMPORTS_PER_SOL
    /\ calc.out # BigZero
    /\ BigLess(calc.out, CurveOutputFor(U64_MAX))

\* the unsaturated product, the unsaturated sum and the quotient of a call
CurveProduct ==
    IF calc.fn = "calculate_buy_token_amount"
    THEN BigMul(calc.amount_in, calc.virtual_token_reserves)
    ELSE BigMul(calc.amount_in, calc.virtual_sol_reserves)
CurveSum ==
    IF calc.fn = "calculate_buy_token_amount"
    THEN BigAdd(calc.virtual_sol_reserves, calc.amount_in)
    ELSE BigAdd(calc.virtual_token_reserves, calc.amount_in)
CurveNumerator ==
    IF calc.fn = "calculate_buy_token_amount"
    THEN BuyNumerator(calc.amount_in, calc.virtual_token_reserves)
    ELSE SellNumerator(calc.amount_in, calc.virtual_sol_reserves)
CurveDenominator ==
    IF calc.fn = "calculate_buy_token_amount"
    THEN BuyDenominator(calc.amount_in, calc.virtual_sol_reserves)
    ELSE SellDenominator(calc.amount_in, calc.virtual_token_reserves)

\* C16: for every combination of u64 arguments, the largest one in every
\* position included, the 128-bit product and sum of the two functions are
\* not clipped by saturation, the division is by a non-zero divisor, and
\* narrowing the quotient to 64 bits does not change it.
C16_NoSaturationNoTruncation ==
    (calc.done /\ ~AnyArgumentZero) =>
        /\ CurveNumerator = CurveProduct
        /\ CurveDenominator = CurveSum
        /\ IsSome(CheckedDiv(CurveNumerator, CurveDenominator))
        /\ AsU64(BigDiv(CurveNumerator, CurveDenominator)) = BigDiv(CurveNumerator, CurveDenominator)
        /\ calc.out = BigDiv(CurveProduct, CurveSum)

\* a buy with the largest u64 value in all three positions
C16_Witness ==
    /\ calc.done
    /\ calc.fn = "calculate_buy_token_amount"
    /\ calc.amount_in = U64_MAX
    /\ calc.virtual_sol_reserves = U64_MAX
    /\ calc.virtual_token_reserves = U64_MAX
    /\ calc.out = BigDiv(U64_MAX, Thousands(<<2>>))

(* ====================== properties of the buy build =================== *)
BuyBuilt == calc.fn = "build_swap_from_parsed_data" /\ calc.done

\* a buy of 1 SOL (1,000,000,000 native units) against the initial reserves of a curve
InitialCurveBuy ==
    /\ BuyBuilt
    /\ UiAmountToAmount(calc.amount_in) = Thousands(<<1, 0, 0, 0>>)
    /\ IsSome(calc.coin_creator)
    /\ calc.virtual_sol_reserves = Thousands(<<30, 0, 0, 0>>)
    /\ calc.virtual_token_reserves = Thousands(<<1, 73, 0, 0, 0, 0>>)

KindsOf(instructions) == [i \in 1 .. Len(instructions) |-> instructions[i].kind]

CreateThenSwap ==
    /\ calc.out.ok
    /\ KindsOf(calc.out.instructions) = <<"create_associated_token_account_idempotent", "swap">>

\* C17 (as stated): a buy of 1,000,000,000 native units against virtual
\* reserves (30,000,000,000 native, 1,073,000,000,000,000 token) yields a
\* buy_out within one unit of 34,612,903,225, and the build returns the
\* account-creation step followed by the swap step.
C17_BuyOutAsStated ==
    InitialCurveBuy =>
        /\ IsSome(calc.token_amount)
        /\ BigLeq(Thousands(<<34, 612, 903, 224>>), Unwrap(calc.token_amount))
        /\ BigLeq(Unwrap(calc.token_amount), Thousands(<<34, 612, 903, 226>>))
        /\ CreateThenSwap

\* C17 (amended): the same buy yields buy_out = 34,612,903,225,806, the floor
\* of 1,073,000,000,000,000 / 31, and the build returns the account-creation
\* step followed by the swap step for that amount.
C17_BuyOutOfInitialCurve ==
    InitialCurveBuy =>
        /\ calc.token_amount = Some(Thousands(<<34, 612, 903, 225, 806>>))
        /\ CreateThenSwap
        /\ calc.out.instructions[2].amount = Thousands(<<34, 612, 903, 225, 806>>)

C17_Witness ==
    /\ InitialCurveBuy
    /\ calc.buy_slippage = Thousands(<<700>>)
    /\ Len(calc.out.instructions) = 2
    /\ calc.out.instructions[2].threshold = Thousands(<<1, 70, 0, 0>>)

\* C18: a build whose computed trade amount is zero (buy: tokens out is 0
\* because the nominal input or a reserve is 0) returns an error, not an
\* instruction list.
C18_ZeroAmountIsError ==
    (BuyBuilt /\ calc.token_amount = Some(BigZero)) => ~calc.out.ok

(* ==================== properties of the blockhash modes =============== *)
NonceHashes == {NonceHash(k) : k \in 1 .. MaxNonce}

\* get_blockhash_for_transaction_static returned Ok(hash)
StaticReturned(r) ==
    /\ pc[r] = "done"
    /\ rd[r].entry = "get_blockhash_for_transaction_static"
    /\ IsSome(rd[r].result)

FromDurableSlot(r) == Unwrap(rd[r].result) \in NonceHashes

\* C19: the hash get_blockhash_for_transaction_static returns comes from the
\* periodic slot in steady-state operation unless the durable source was
\* opted into by configuring a durable account, and from the durable slot
\* while a one-off administrative operation is in progress and a durable
\* account is configured.
C19_ModeSelectsSlot ==
    \A r \in Readers :
        StaticReturned(r) =>
            /\ (~is_command_mode /\ ~is_offchain_blockhash_available) => ~FromDurableSlot(r)
            /\ (is_command_mode /\ is_offchain_blockhash_available) => FromDurableSlot(r)

\* a get_offchain_blockhash call that found the durable slot populated
\* returned the value of the slot and did not ask the RPC node
DurableReadsAreCached ==
    \A r \in Readers :
        (pc[r] = "done" /\ rd[r].entry = "get_offchain_blockhash" /\ IsSome(rd[r].slotAtCall)) =>
            /\ rd[r].result = rd[r].slotAtCall
            /\ ~rd[r].nonceFetched

\* the durable slot changes only in the step of update_offchain_blockhash
\* that caches the value it read from the durable account
DurableSlotWrittenOnlyByUpdate ==
    [][OFFCHAIN_BLOCKHASH' # OFFCHAIN_BLOCKHASH =>
           \E r \in Readers :
               /\ pc[r] = "uoff_write"
               /\ pc'[r] = "done"
               /\ ~rd'[r].failed
               /\ OFFCHAIN_BLOCKHASH' = rd'[r].result]_vars

\* C20: once the durable slot is populated every get_offchain_blockhash read
\* returns the cached value without a network fetch, and the slot changes
\* only through an update_offchain_blockhash call that succeeds: not through
\* the periodic refresher, its failures, staleness of the periodic slot or a
\* failed durable update.
C20_DurableSlotCachedUntilUpdated ==
    []DurableReadsAreCached /\ DurableSlotWrittenOnlyByUpdate

\* a cached durable read after the account moved on and the periodic slot went stale
C20_Witness ==
    \E r \in Readers :
        /\ pc[r] = "done"
        /\ rd[r].entry = "get_offchain_blockhash"
        /\ IsSome(rd[r].slotAtCall)
        /\ rd[r].result = OFFCHAIN_BLOCKHASH
        /\ OFFCHAIN_BLOCKHASH # Some(NonceHash(nonceSeq))
        /\ IsSome(LATEST_BLOCKHASH)
        /\ IsStale(BLOCKHASH_LAST_UPDATED)

(* ================= properties of the constant product ================= *)
\* the reserve the trade pays out of, and the reserve it pays into
ReserveOut ==
    IF calc.fn = "calculate_buy_token_amount"
    THEN calc.virtual_token_reserves ELSE calc.virtual_sol_reserves
ReserveIn ==
    IF calc.fn = "calculate_buy_token_amount"
    THEN calc.virtual_sol_reserves ELSE calc.virtual_token_reserves

ProductBefore == BigMul(calc.virtual_sol_reserves, calc.virtual_token_reserves)
ProductAfter == BigMul(BigAdd(ReserveIn, calc.amount_in), BigSub(ReserveOut, calc.out))

\* C29: for non-zero u64 arguments the quoted output of a buy is below the
\* token reserve and that of a sell below the native reserve, and the
\* product of the reserves after the trade is not below the product before.
C29_NoDrainNoProductDecrease ==
    (calc.fn \in CurveFns /\ calc.done /\ ~AnyArgumentZero) =>
        /\ BigLess(calc.out, ReserveOut)
        /\ BigLeq(ProductBefore, ProductAfter)

\* a buy of one native unit against the initial reserves, where the floor
\* leaves a remainder and the product grows
C29_Witness ==
    /\ calc.done
    /\ calc.fn = "calculate_buy_token_amount"
    /\ calc.amount_in = LAMPORTS_PER_SOL
    /\ calc.virtual_sol_reserves = INITIAL_VIRTUAL_SOL_RESERVES
    /\ calc.virtual_token_reserves = INITIAL_VIRTUAL_TOKEN_RESERVES
    /\ calc.out # BigZero
    /\ BigLess(ProductBefore, ProductAfter)

(* ================= properties of the slippage bound =================== *)
SlippageComputed == calc.fn = "max_amount_with_slippage" /\ calc.done

InflatedInput ==
    BigDiv(BigMul(calc.input_amount, BigAdd(TEN_THOUSAND, calc.slippage_bps)), TEN_THOUSAND)

\* C24: for every u64 nominal input and every configured slippage (at most
\* 50000 bps) the computation of the maximum acceptable input completes
\* without panic and yields floor(input * (10000 + slippage) / 10000).
C24_SlippageBoundNeverPanics ==
    SlippageComputed =>
        /\ BigLeq(calc.slippage_bps, max_slippage)
        /\ IsSome(calc.out)
        /\ Unwrap(calc.out) = InflatedInput


(* ================= properties of the two sell channels ================ *)
AcceptedFrom(p) == {i \in 1 .. Len(submitted) : submitted[i].by = p}

\* C26: within one call of execute_sell_with_retry_and_fallback at most one
\* transaction is accepted for broadcast; the aggregator channel submits
\* only if the priority relay accepted nothing in the same call, also when
\* a step after the relay's acceptance fails.
C26_AtMostOneAccepted ==
    \A p \in SellProcs :
        Orchestrated(p) =>
            /\ Cardinality(AcceptedFrom(p)) <= 1
            /\ (SubmissionsOf(p, "jupiter") # {} => SubmissionsOf(p, "zeroslot") = {})

MarkerAbsent == trade_info.mint \notin SELL_REASONS

\* a channel whose attempt starts with the marker absent leaves its gate
\* without having submitted: the primary hands over to the fallback, the
\* secondary returns the failure
GateAbortsWithoutMarker ==
    \A p \in SellProcs :
        /\ (pc[p] = "pf_gate" /\ MarkerAbsent /\ pc'[p] # "pf_gate") =>
                /\ pc'[p] = AfterNormalSellFailed
                /\ submitted' = submitted
        /\ (pc[p] = "jup_gate" /\ MarkerAbsent /\ pc'[p] # "jup_gate") =>
                /\ pc'[p] = "done"
                /\ sell'[p].result.set /\ ~sell'[p].result.success
                /\ submitted' = submitted

\* what was submitted went through a gate that saw the marker, and a call
\* during which the marker never existed submits nothing and fails
SubmittedBehindMarker ==
    \A p \in SellProcs :
        /\ (Orchestrated(p) /\ SubmissionsOf(p, "zeroslot") # {}) => sell[p].gateSawMarker
        /\ (Orchestrated(p) /\ AcceptedFrom(p) # {}) => markerInserts > 0
        /\ (Returned(p) /\ markerInserts = 0) =>
                (AcceptedFrom(p) = {} /\ ~sell[p].result.success)

\* C27: no channel submits a transaction for a mint whose sell marker is
\* absent when that channel's attempt starts; with the marker absent for the
\* whole call nothing is submitted and the result is a failure; with the
\* marker removed after the primary attempt failed, the secondary attempt
\* aborts without submitting.
C27_NoSubmissionWithoutMarker ==
    []SubmittedBehindMarker /\ [][GateAbortsWithoutMarker]_vars

\* the marker was there for the primary attempt, which failed, and gone
\* when the secondary attempt started
C27_Witness ==
    \E p \in SellProcs :
        /\ Returned(p)
        /\ sell[p].gateSawMarker
        /\ PumpFailed(p)
        /\ sell[p].secondaryAttempts = 1
        /\ sell[p].jupErr = <<"Sell reason not set - skipping transaction building">>
        /\ AcceptedFrom(p) = {}
        /\ ~sell[p].result.success

\* C28: in every result returned by execute_sell_with_retry_and_fallback,
\* attempt_count is the number of channel attempts made during the call:
\* 1 when the primary succeeds, 2 when the primary failed and the fallback
\* was attempted, 1 when the primary was skipped and only the fallback ran.
C28_AttemptCountIsAttemptsMade ==
    \A p \in SellProcs :
        Returned(p) =>
            sell[p].result.attempt_count = sell[p].primaryAttempts + sell[p].secondaryAttempts

(* ================= properties of the sell build ======================= *)
Holding == TOKEN_HOLDINGS[trade_info.mint]

\* the build result for a quantity resolved from raw_amount
BuiltFrom(raw_amount) ==
    BuildFinish(SellTokenAmount(sell_config.in_type, sell_config.amount_in, raw_amount))

InquiryFailedErrors ==
    {BuildErr("Token account does not exist and not in TOKEN_HOLDINGS"),
     BuildErr("Failed to get token account balance and not in TOKEN_HOLDINGS")}

\* the first read: a holding present decides the quantity and ends the
\* build; the inquiry is started only from a first read that found nothing
FirstReadDecides(p) ==
    /\ (pc[p] = "build_start" /\ pc'[p] # "build_start"
            /\ IsSome(trade_info.coin_creator) /\ IsSome(Holding)) =>
            /\ pc'[p] # "build_rpc"
            /\ sell'[p].built
            /\ sell'[p].build = BuiltFrom(RawFromUi(Unwrap(Holding)))
    /\ (pc[p] # "build_rpc" /\ pc'[p] = "build_rpc") =>
            (pc[p] = "build_start" /\ ~IsSome(Holding))

\* the inquiry answers: its balance is used, or, when it failed, the
\* holding present at the second read, or else the build is an error
\* without instructions
InquiryThenSecondRead(p) ==
    (pc[p] = "build_rpc" /\ pc'[p] # "build_rpc") =>
        /\ sell'[p].built
        /\ \/ \E a \in RpcBalances : sell'[p].build = BuiltFrom(a)
           \/ IsSome(Holding) /\ sell'[p].build = BuiltFrom(RawFromUi(Unwrap(Holding)))
           \/ /\ ~IsSome(Holding)
              /\ sell'[p].build \in InquiryFailedErrors
              /\ sell'[p].build.instructions = <<>>

\* C23: a sell build resolves its quantity in priority order: the holding
\* found at the first read of the store, without a live inquiry; only when
\* there is none, the live balance; and when the inquiry reports no account
\* or fails, the holding found at a second read of the store, or else an
\* error and no instructions.
C23_QuantityPriorityOrder ==
    [][\A p \in SellProcs : FirstReadDecides(p) /\ InquiryThenSecondRead(p)]_vars

\* a build is waiting for the live inquiry, its first read having found
\* nothing, and the holding has been inserted meanwhile
C23_Witness ==
    \E p \in SellProcs :
        /\ pc[p] = "build_rpc"
        /\ ~sell[p].built
        /\ IsSome(Holding)

PctResolved == calc.fn = "sell_token_amount" /\ calc.done

\* C30: in a percentage-mode sell build that resolves its quantity from a
\* holding of raw amount H, the token amount of the swap instruction is at
\* least 1 and never exceeds H, for every percentage (values above 1.0 are
\* capped at 1.0) and every H including 0.
C30_PctAmountWithinHolding ==
    PctResolved =>
        /\ BigLeq(BigOne, calc.out)
        /\ BigLeq(calc.out, calc.raw_amount)

(* ================= properties of the blockhash locks ================== *)
\* p, inside get_latest_blockhash, holds the timestamp lock for reading and
\* waits for the value lock, which the refresh task holds for writing while
\* it waits for the timestamp lock
WaitForEachOther(p) ==
    /\ pc[p] = "glb_latest"
    /\ p \in tsLock.r
    /\ ~CanRead(latestLock)
    /\ bgPc = "w_ts"
    /\ latestLock.w = Refresher
    /\ ~CanWrite(tsLock, Refresher)

\* C25: no interleaving of get_latest_blockhash with a writer of the cache
\* reaches a state in which each waits forever on a lock the other holds,
\* with the two locks taken in the orders of the code.
C25_NoLockCycle ==
    \A p \in Callers : ~WaitForEachOther(p)

(* ================= properties of the maintenance sweep ================ *)
\* every cleanup lock has a holder, and outside the time-boxed block the
\* sweep holds none: what it acquired it has released, however it left
SweepLocksReleased ==
    /\ CLEANUP_IN_PROGRESS = maint.guards \cup maint.building
    /\ maint.pc \notin InBlock => maint.guards = {}

\* no step removes the entry of a mint whose lock a build holds
NoEvictionUnderBuildLock ==
    \A m \in Mints :
        (m \in maint.building /\ IsSome(TOKEN_HOLDINGS[m])) => IsSome(TOKEN_HOLDINGS'[m])

\* the sweep takes a lock only if it is free, passes a taken one by in the
\* same step without touching the entry, and starts every pass with all mints
TryOnceThenSkip ==
    \A m \in Mints :
        /\ (m \notin maint.guards /\ m \in maint'.guards) => m \notin CLEANUP_IN_PROGRESS
        /\ (maint.pc = "size_limits" /\ m \in maint.todo /\ m \notin maint'.todo
                /\ m \in CLEANUP_IN_PROGRESS) =>
                /\ m \in maint'.skipped
                /\ maint'.guards = maint.guards
                /\ TOKEN_HOLDINGS' = TOKEN_HOLDINGS
        /\ (maint.pc = "start_cleanup" /\ maint'.pc # "start_cleanup") =>
                (maint'.todo = Mints /\ maint'.skipped = {})

InPeriodicLoop ==
    maint.pc \in {"tick", "start_cleanup", "finish", "returned"} \cup InBlock

\* C22: a maintenance failure never propagates: perform_comprehensive_cleanup
\* returns Ok whether the sweep completes, a step errors or the sweep exceeds
\* its hard timeout, and the periodic loop goes on to its next cycle.
C22_MaintenanceFailureContained ==
    /\ [](/\ InPeriodicLoop
          /\ \A i \in 1 .. Len(maint.results) : maint.results[i].returned = "Ok"
          /\ Len(maint.results) \in {maint.cycle, maint.cycle + 1})
    /\ [][(maint.pc = "returned" /\ maint'.pc # "returned") =>
                (maint'.pc = "tick" /\ maint'.cycle = maint.cycle + 1)]_vars

\* a sweep was cancelled by the timeout, its call returned Ok, and the loop
\* has started the next cycle
C22_Witness ==
    /\ maint.cycle >= 1
    /\ maint.pc \in InBlock
    /\ maint.results[1].cleanup_result = "timeout"
    /\ maint.results[1].returned = "Ok"

====
